---- MODULE Spec2Model ----
(***************************************************************************)
(* gformfiller: the profile-queue scheduler (api/inscriptions.py,          *)
(* process_queue), the job execution it launches (core/filler_worker.py,   *)
(* FillerWorker.run) and the form navigation engine                        *)
(* (domain/form_filler.py, FormFiller).                                    *)
(*                                                                         *)
(* Spec     : one process_queue coroutine on the event loop, the worker    *)
(*            threads it launches, and the worker threads an earlier       *)
(*            batch left running.                                          *)
(* SpecFill : one job execution between lock_file.touch() and the finally  *)
(*            block: driver.get, FormFiller(...) and FormFiller.run on a   *)
(*            form of up to MaxPages pages.                                *)
(***************************************************************************)
EXTENDS Integers, Sequences, FiniteSets, TLC

\* ------------------------------------------------------------------ bounds
NumProfiles == 2
NumBatch == 2
NumPrior == 1
MaxTime == 2
MaxPages == 2
MaxQuestions == 2
MaxExprs == 2
MaxRetries == 2
MaxOptions == 2
MaxExprLen == 3
MaxNodes == 6
MaxTextLen == 2
MaxTokens == 5

Profiles == 1..NumProfiles
BatchJobs == 1..NumBatch
PriorJobs == (NumBatch + 1)..(NumBatch + NumPrior)
Jobs == BatchJobs \cup PriorJobs

\* free_profile = None
NoProfile == 0

\* fm.list_profiles(): the pool, in its (fixed) iteration order
Pool == [i \in 1..NumProfiles |-> i]

\* core.constants.Status
Status == [PENDING |-> "pending", COMPLETED |-> "completed",
           FAILED |-> "failed", ERROR |-> "error"]

VARIABLES
    \* process_queue's arguments and the jobs' creation times
    filler_names, created_at, url,
    \* process_queue's locals
    queue, spc, observed, free_profile, launched,
    \* the jobs' files: config.json "profile", metadata.json "url" and "status"
    cfgProfile, metaUrl, status,
    \* the profiles' lock artifacts
    lock,
    \* FillerWorker.run, one execution per job
    wpc, profile, session, touched, mstatus, ret,
    \* the job's merged configuration dictionary (defaults and config.json)
    merged_data,
    \* FormFiller: the form in the browser, the constructor's arguments
    form, f_submit, f_retries,
    \* FormFiller.run and fill_current_page_with_dsl: position and locals
    f_pc, f_page, f_nq, f_q, f_ne, f_e, f_attempt, filled_count, f_success,
    \* the current question: the match results of the expressions evaluated
    \* so far, and the expressions whose answer was pushed
    f_match, f_applied,
    \* the locators _navigate_to_next_page used for the next control, and on
    \* which page index
    f_located,
    \* what happened during the run
    f_okQ, f_failQ, f_counts, f_nextClicks, f_clickRaised, f_submitClicks,
    f_submitted, f_raised

schedVars == <<filler_names, created_at, url, queue, spc, observed,
               free_profile, launched>>
fileVars == <<cfgProfile, metaUrl, status>>
workerVars == <<wpc, profile, session, touched, mstatus, ret>>
exprVars == <<f_match, f_applied>>
fillVars == <<exprVars, f_located, merged_data, form, f_submit, f_retries, f_pc, f_page, f_nq, f_q, f_ne, f_e,
              f_attempt, filled_count, f_success, f_okQ, f_failQ, f_counts,
              f_nextClicks, f_clickRaised, f_submitClicks, f_submitted, f_raised>>

\* identify_response_type on one question container
VARIABLES c_elems, c_pc, c_i, c_result
classifyVars == <<c_elems, c_pc, c_i, c_result>>

\* no container is being classified
ClassifyIdle ==
    /\ c_elems = {}
    /\ c_pc = "idle"
    /\ c_i = 0
    /\ c_result = "none"

\* CheckboxResponse.push: the options, the loop and what each push did
VARIABLES k_opts, k_pc, k_push, k_i, successful_clicks, k_clicks, k_ret, k_clickFailed
checkboxVars == <<k_opts, k_pc, k_push, k_i, successful_clicks, k_clicks, k_ret, k_clickFailed>>

\* no checkbox question is being answered
CheckboxIdle ==
    /\ k_opts = <<>>
    /\ k_pc = "idle"
    /\ k_push = 0
    /\ k_i = 0
    /\ successful_clicks = 0
    /\ k_clicks = <<>>
    /\ k_ret = <<>>
    /\ k_clickFailed = FALSE

\* RadioResponse.push: the options, the loop and what the push did
VARIABLES r_opts, r_init, r_pc, r_i, found_match, r_evaluated, r_clicked, r_ret
radioVars == <<r_opts, r_init, r_pc, r_i, found_match, r_evaluated, r_clicked, r_ret>>

\* no radio question is being answered
RadioIdle ==
    /\ r_opts = <<>>
    /\ r_init = <<>>
    /\ r_pc = "idle"
    /\ r_i = 0
    /\ found_match = FALSE
    /\ r_evaluated = {}
    /\ r_clicked = <<>>
    /\ r_ret = "none"

\* _fill_question on a Date question: the answer, the input field and the attempts
VARIABLES d_answer, d_retries, d_field, d_pc, d_attempt, d_touched, d_errors, d_result
dateVars == <<d_answer, d_retries, d_field, d_pc, d_attempt, d_touched, d_errors, d_result>>

\* no date question is being answered
DateIdle ==
    /\ d_answer = <<>>
    /\ d_retries = 0
    /\ d_field = "empty"
    /\ d_pc = "idle"
    /\ d_attempt = 0
    /\ d_touched = FALSE
    /\ d_errors = <<>>
    /\ d_result = "none"

\* _fill_question on a File-upload question: the field, the answer, the attempts and the calls of push
VARIABLES u_attached, u_path, u_retries, u_pc, u_apply, u_attempt, u_calls, u_results
uploadVars == <<u_attached, u_path, u_retries, u_pc, u_apply, u_attempt, u_calls, u_results>>

\* no file-upload question is being answered
UploadIdle ==
    /\ u_attached = FALSE
    /\ u_path = "empty"
    /\ u_retries = 0
    /\ u_pc = "idle"
    /\ u_apply = 0
    /\ u_attempt = 0
    /\ u_calls = <<>>
    /\ u_results = <<>>

\* match on one text and one expression: the arguments of the call, the two strings as the call rebinds them, the position in the chain, the tokens, the tree and the value returned
VARIABLES m_text, m_expression, m_pc, m_tokens, m_ast, m_result, m_args
matchVars == <<m_text, m_expression, m_pc, m_tokens, m_ast, m_result, m_args>>

\* no expression is being matched
MatchIdle ==
    /\ m_text = <<>>
    /\ m_expression = <<>>
    /\ m_pc = "idle"
    /\ m_tokens = <<>>
    /\ m_ast = [op |-> "None"]
    /\ m_result = "unset"
    /\ m_args = [text |-> <<>>, expression |-> <<>>, ignore_case |-> TRUE]

\* a Parser on one token list: the list, the position in the run and what parse returned
VARIABLES p_tokens, p_pc, p_current, p_ast, p_error
parseVars == <<p_tokens, p_pc, p_current, p_ast, p_error>>

\* no token list is being parsed
ParseIdle ==
    /\ p_tokens = <<>>
    /\ p_pc = "idle"
    /\ p_current = "unset"
    /\ p_ast = [op |-> "None"]
    /\ p_error = "none"

\* the state of the scheduler, the workers and the engine
baseVars == <<schedVars, fileVars, lock, workerVars, fillVars>>

\* the handlers and the expression language, outside a run of the engine
extVars == <<classifyVars, checkboxVars, radioVars, dateVars, uploadVars, matchVars, parseVars>>
ExtIdle ==
    /\ ClassifyIdle
    /\ CheckboxIdle
    /\ RadioIdle
    /\ DateIdle
    /\ UploadIdle
    /\ MatchIdle
    /\ ParseIdle

\* what identify_response_type leaves alone
exceptClassify == <<baseVars, checkboxVars, radioVars, dateVars, uploadVars, matchVars, parseVars>>
IdleExceptClassify ==
    /\ CheckboxIdle
    /\ RadioIdle
    /\ DateIdle
    /\ UploadIdle
    /\ MatchIdle
    /\ ParseIdle

\* what CheckboxResponse.push leaves alone
exceptCheckbox == <<baseVars, classifyVars, radioVars, dateVars, uploadVars, matchVars, parseVars>>
IdleExceptCheckbox ==
    /\ ClassifyIdle
    /\ RadioIdle
    /\ DateIdle
    /\ UploadIdle
    /\ MatchIdle
    /\ ParseIdle

\* what RadioResponse.push leaves alone
exceptRadio == <<baseVars, classifyVars, checkboxVars, dateVars, uploadVars, matchVars, parseVars>>
IdleExceptRadio ==
    /\ ClassifyIdle
    /\ CheckboxIdle
    /\ DateIdle
    /\ UploadIdle
    /\ MatchIdle
    /\ ParseIdle

\* what the apply of a Date answer leaves alone
exceptDate == <<baseVars, classifyVars, checkboxVars, radioVars, uploadVars, matchVars, parseVars>>
IdleExceptDate ==
    /\ ClassifyIdle
    /\ CheckboxIdle
    /\ RadioIdle
    /\ UploadIdle
    /\ MatchIdle
    /\ ParseIdle

\* what the apply of a File-upload answer leaves alone
exceptUpload == <<baseVars, classifyVars, checkboxVars, radioVars, dateVars, matchVars, parseVars>>
IdleExceptUpload ==
    /\ ClassifyIdle
    /\ CheckboxIdle
    /\ RadioIdle
    /\ DateIdle
    /\ MatchIdle
    /\ ParseIdle

\* what one call of match leaves alone
exceptMatch == <<baseVars, classifyVars, checkboxVars, radioVars, dateVars, uploadVars, parseVars>>
IdleExceptMatch ==
    /\ ClassifyIdle
    /\ CheckboxIdle
    /\ RadioIdle
    /\ DateIdle
    /\ UploadIdle
    /\ ParseIdle

\* what one run of the Parser leaves alone
exceptParse == <<baseVars, classifyVars, checkboxVars, radioVars, dateVars, uploadVars, matchVars>>
IdleExceptParse ==
    /\ ClassifyIdle
    /\ CheckboxIdle
    /\ RadioIdle
    /\ DateIdle
    /\ UploadIdle
    /\ MatchIdle

vars == <<schedVars, fileVars, lock, workerVars, fillVars, extVars>>

\* ---------------------------------------------------------------- helpers

\* all orders in which a batch's names can be submitted
Perms(S) == {s \in [1..Cardinality(S) -> S] : \A i, k \in 1..Cardinality(S) : i # k => s[i] # s[k]}

InsertByKey(s, x, key) ==
    LET n == Cardinality({i \in 1..Len(s) : key[s[i]] <= key[x]})
    IN  SubSeq(s, 1, n) \o <<x>> \o SubSeq(s, n + 1, Len(s))

RECURSIVE SortedBy(_, _)
\* sorted(detailed_fillers, key=created_at): ascending and stable
SortedBy(s, key) ==
    IF s = <<>> THEN <<>>
    ELSE InsertByKey(SortedBy(SubSeq(s, 1, Len(s) - 1), key), s[Len(s)], key)

\* the mutation of the sort: newest first
SortedByDescending(s, key) ==
    LET a == SortedBy(s, key) IN [i \in 1..Len(a) |-> a[Len(a) + 1 - i]]

SortedByCreatedAt(s, key) == SortedBy(s, key)

\* asyncio: a task made by create_task starts (hands worker.run to a thread)
\* only once the coroutine that made it gives the event loop the control back
ReleaseTasks(pcs) == [j \in Jobs |-> IF pcs[j] = "created" THEN "submitted" ELSE pcs[j]]

Ended(j) == wpc[j] = "ended"
Launched(j) == wpc[j] # "idle"

\* ------------------------------------------------------------------- Init

\* no FormFiller has been constructed
FillIdle ==
    /\ merged_data = <<>>
    /\ f_located = <<>>
    /\ f_match = <<>>
    /\ f_applied = {}
    /\ form = <<>>
    /\ f_submit = FALSE
    /\ f_retries = 0
    /\ f_pc = "idle"
    /\ f_page = 0
    /\ f_nq = 0
    /\ f_q = 0
    /\ f_ne = 0
    /\ f_e = 0
    /\ f_attempt = 0
    /\ filled_count = 0
    /\ f_success = FALSE
    /\ f_okQ = {}
    /\ f_failQ = {}
    /\ f_counts = <<>>
    /\ f_nextClicks = 0
    /\ f_clickRaised = FALSE
    /\ f_submitClicks = 0
    /\ f_submitted = FALSE
    /\ f_raised = FALSE

\* no batch is queued and no job runs
SchedIdle ==
    /\ filler_names = <<>>
    /\ created_at = [j \in BatchJobs |-> 1]
    /\ url = FALSE
    /\ queue = <<>>
    /\ spc = "done"
    /\ observed = <<>>
    /\ free_profile = NoProfile
    /\ launched = <<>>
    /\ cfgProfile = [j \in Jobs |-> NoProfile]
    /\ metaUrl = [j \in Jobs |-> FALSE]
    /\ status = [j \in Jobs |-> Status.PENDING]
    /\ lock = {}
    /\ wpc = [j \in Jobs |-> "idle"]
    /\ profile = [j \in Jobs |-> NoProfile]
    /\ session = [j \in Jobs |-> FALSE]
    /\ touched = [j \in Jobs |-> FALSE]
    /\ mstatus = [j \in Jobs |-> Status.PENDING]
    /\ ret = [j \in Jobs |-> "none"]

Init ==
    /\ filler_names \in Perms(BatchJobs)
    /\ created_at \in [BatchJobs -> 1..MaxTime]
    /\ url \in BOOLEAN
    /\ queue = <<>>
    /\ spc = "init"
    /\ observed = <<>>
    /\ free_profile = NoProfile
    /\ launched = <<>>
    /\ cfgProfile \in {f \in [Jobs -> Profiles \cup {NoProfile}] :
                         /\ \A j \in BatchJobs : f[j] = NoProfile
                         /\ \A j \in PriorJobs : f[j] \in Profiles}
    /\ metaUrl = [j \in Jobs |-> j \in PriorJobs]
    /\ status = [j \in Jobs |-> Status.PENDING]
    /\ lock \in SUBSET Profiles
    /\ wpc = [j \in Jobs |-> IF j \in PriorJobs THEN "submitted" ELSE "idle"]
    /\ profile = [j \in Jobs |-> NoProfile]
    /\ session = [j \in Jobs |-> FALSE]
    /\ touched = [j \in Jobs |-> FALSE]
    /\ mstatus = [j \in Jobs |-> Status.PENDING]
    /\ ret = [j \in Jobs |-> "none"]
    /\ FillIdle
    /\ ExtIdle

\* ----------------------------------------------------------- process_queue

\* lines 141-151: read created_at of every name, sort ascending
SortQueue ==
    /\ spc = "init"
    /\ queue' = SortedByCreatedAt(filler_names, created_at)
    /\ spc' = "scan"
    /\ UNCHANGED <<extVars, fillVars, filler_names, created_at, url, observed, free_profile, launched,
                   fileVars, lock, workerVars>>

\* lines 155-162: one turn of the for loop over the pool
ScanStep ==
    /\ spc = "scan"
    /\ LET p == Pool[Len(observed) + 1] IN
       IF p \notin lock
       THEN /\ free_profile' = p
            /\ observed' = Append(observed, FALSE)
            /\ spc' = "found"
       ELSE /\ free_profile' = NoProfile
            /\ observed' = Append(observed, TRUE)
            /\ spc' = IF Len(observed) + 1 = NumProfiles THEN "backoff" ELSE "scan"
    /\ UNCHANGED <<extVars, fillVars, filler_names, created_at, url, queue, launched,
                   fileVars, lock, workerVars>>

\* lines 164-182: pop the oldest, stamp profile and url, create the task,
\* time.sleep(1.0) (the event loop is not given the control back)
Assign ==
    /\ spc = "found"
    /\ LET c == Head(queue) IN
       /\ queue' = Tail(queue)
       /\ cfgProfile' = [cfgProfile EXCEPT ![c] = free_profile]
       /\ metaUrl' = [metaUrl EXCEPT ![c] = url]
       /\ wpc' = [wpc EXCEPT ![c] = "created"]
       /\ launched' = Append(launched, c)
    /\ observed' = <<>>
    /\ free_profile' = NoProfile
    /\ spc' = IF queue' = <<>> THEN "exit" ELSE "scan"
    /\ UNCHANGED <<extVars, fillVars, filler_names, created_at, url, status, lock,
                   profile, session, touched, mstatus, ret>>

\* the mutation of the backoff: rescan at once
BackoffBusySpin ==
    /\ spc = "backoff"
    /\ spc' = "scan"
    /\ observed' = <<>>
    /\ UNCHANGED <<extVars, fillVars, filler_names, created_at, url, queue, free_profile, launched,
                   fileVars, lock, workerVars>>

\* lines 183-185: await asyncio.sleep(5) begins, the event loop runs the tasks
Backoff ==
    /\ spc = "backoff"
    /\ spc' = "sleeping"
    /\ wpc' = ReleaseTasks(wpc)
    /\ UNCHANGED <<extVars, fillVars, filler_names, created_at, url, queue, observed, free_profile,
                   launched, fileVars, lock, profile, session, touched, mstatus, ret>>

\* the mutation of the wake-up: the pool is not scanned again
WakeWithoutRescan ==
    /\ spc = "sleeping"
    /\ spc' = "backoff"
    /\ UNCHANGED <<extVars, fillVars, filler_names, created_at, url, queue, observed, free_profile,
                   launched, fileVars, lock, workerVars>>

\* line 185 returns, line 153 again
Wake ==
    /\ spc = "sleeping"
    /\ spc' = "scan"
    /\ observed' = <<>>
    /\ UNCHANGED <<extVars, fillVars, filler_names, created_at, url, queue, free_profile, launched,
                   fileVars, lock, workerVars>>

\* line 153 with an empty queue: process_queue returns
Finish ==
    /\ spc = "exit"
    /\ spc' = "done"
    /\ wpc' = ReleaseTasks(wpc)
    /\ UNCHANGED <<extVars, fillVars, filler_names, created_at, url, queue, observed, free_profile,
                   launched, fileVars, lock, profile, session, touched, mstatus, ret>>

\* ---------------------------------------------------------- FillerWorker.run

\* lines 56-77: resolve the configuration (may raise), read the metadata,
\* return False without a url or when the profile's lock exists
W_Start(j) ==
    /\ wpc[j] = "submitted"
    /\ \/ /\ wpc' = [wpc EXCEPT ![j] = "ended"]
          /\ ret' = [ret EXCEPT ![j] = "raised"]
          /\ UNCHANGED profile
       \/ /\ profile' = [profile EXCEPT ![j] = cfgProfile[j]]
          /\ IF ~metaUrl[j] \/ cfgProfile[j] \in lock
             THEN /\ wpc' = [wpc EXCEPT ![j] = "ended"]
                  /\ ret' = [ret EXCEPT ![j] = "false"]
             ELSE /\ wpc' = [wpc EXCEPT ![j] = "open"]
                  /\ UNCHANGED ret
    /\ UNCHANGED <<extVars, fillVars, schedVars, fileVars, lock, session, touched, mstatus>>

\* lines 79-90: get_chromedriver opens the browser session on the profile,
\* or raises DriverCreationError
W_OpenDriver(j) ==
    /\ wpc[j] = "open"
    /\ \/ /\ session' = [session EXCEPT ![j] = TRUE]
          /\ wpc' = [wpc EXCEPT ![j] = "touch"]
          /\ UNCHANGED ret
       \/ /\ wpc' = [wpc EXCEPT ![j] = "ended"]
          /\ ret' = [ret EXCEPT ![j] = "raised"]
          /\ UNCHANGED session
    /\ UNCHANGED <<extVars, fillVars, schedVars, fileVars, lock, profile, touched, mstatus>>

\* lines 92-93: lock_file.touch()
W_Touch(j) ==
    /\ wpc[j] = "touch"
    /\ lock' = lock \cup {profile[j]}
    /\ touched' = [touched EXCEPT ![j] = TRUE]
    /\ wpc' = [wpc EXCEPT ![j] = "body"]
    /\ UNCHANGED <<extVars, fillVars, schedVars, fileVars, profile, session, mstatus, ret>>

\* lines 113 and 119: the status FillerWorker.run records for what the body did
StatusOfRun(outcome) ==
    CASE outcome = "raised" -> Status.ERROR
      [] outcome = "true" -> Status.COMPLETED
      [] OTHER -> Status.FAILED

\* lines 95-121: driver.get and FormFiller(...) may raise (except branch);
\* FormFiller.run returns True or False
W_Body(j) ==
    /\ wpc[j] = "body"
    /\ \E outcome \in {"raised", "true", "false"} :
          /\ mstatus' = [mstatus EXCEPT ![j] = StatusOfRun(outcome)]
          /\ ret' = [ret EXCEPT ![j] = IF outcome = "true" THEN "true" ELSE "false"]
    /\ wpc' = [wpc EXCEPT ![j] = "finally"]
    /\ UNCHANGED <<extVars, fillVars, schedVars, fileVars, lock, profile, session, touched>>

\* lines 123-127: write the metadata and the notification (either may raise,
\* and the exception leaves run), then quit the driver
W_Finally(j) ==
    /\ wpc[j] = "finally"
    /\ \/ /\ status' = [status EXCEPT ![j] = mstatus[j]]
          /\ session' = [session EXCEPT ![j] = FALSE]
          /\ wpc' = [wpc EXCEPT ![j] = "exists"]
          /\ UNCHANGED ret
       \/ /\ wpc' = [wpc EXCEPT ![j] = "ended"]
          /\ ret' = [ret EXCEPT ![j] = "raised"]
          /\ UNCHANGED <<status, session>>
    /\ UNCHANGED <<extVars, fillVars, schedVars, cfgProfile, metaUrl, lock, profile, touched, mstatus>>

\* line 128: if lock_file.exists()
W_LockExists(j) ==
    /\ wpc[j] = "exists"
    /\ wpc' = [wpc EXCEPT ![j] = IF profile[j] \in lock THEN "unlink" ELSE "ended"]
    /\ UNCHANGED <<extVars, fillVars, schedVars, fileVars, lock, profile, session, touched, mstatus, ret>>

\* line 129: lock_file.unlink(), FileNotFoundError when the file is gone
W_Unlink(j) ==
    /\ wpc[j] = "unlink"
    /\ wpc' = [wpc EXCEPT ![j] = "ended"]
    /\ IF profile[j] \in lock
       THEN /\ lock' = lock \ {profile[j]}
            /\ UNCHANGED ret
       ELSE /\ ret' = [ret EXCEPT ![j] = "raised"]
            /\ UNCHANGED lock
    /\ UNCHANGED <<extVars, fillVars, schedVars, fileVars, profile, session, touched, mstatus>>

Next ==
    \/ SortQueue
    \/ ScanStep
    \/ Assign
    \/ Backoff
    \/ Wake
    \/ Finish
    \/ \E j \in Jobs : W_Start(j)
    \/ \E j \in Jobs : W_OpenDriver(j)
    \/ \E j \in Jobs : W_Touch(j)
    \/ \E j \in Jobs : W_Body(j)
    \/ \E j \in Jobs : W_Finally(j)
    \/ \E j \in Jobs : W_LockExists(j)
    \/ \E j \in Jobs : W_Unlink(j)

Spec == Init /\ [][Next]_vars

\* ------------------------------------------------------------- FormFiller

\* the job whose execution SpecFill follows
FillJob == CHOOSE j \in BatchJobs : \A k \in BatchJobs : j <= k

\* the forms: every page has or lacks a submit control and a next control,
\* the last page has no next control
Forms ==
    UNION {{f \in [1..n -> [submit : BOOLEAN, next : BOOLEAN]] : ~f[n].next}
           : n \in 1..MaxPages}

\* FillerConfig.max_retries: Field(default=2, ge=0, le=5)
DefaultMaxRetries == 2

\* {**defaults, **overrides}: the key max_retries is there or not
MergedConfigs ==
    UNION {[D -> 0..MaxRetries] : D \in SUBSET {"max_retries"}}

\* FillerConfig.model_validate(merged_data).max_retries, handed to
\* FormFiller(max_retries=config.max_retries)
ModelValidate(cfg) ==
    IF "max_retries" \in DOMAIN cfg THEN cfg["max_retries"] ELSE DefaultMaxRetries

\* the page the browser shows
CurrentPage == form[f_page + 1]

\* spec 4.3: the final page is the one with a terminal submit control, or
\* with no next control
LastPageReached == CurrentPage.submit \/ ~CurrentPage.next

\* the job is in its try block, the lock touched and the session open
InitFill ==
    /\ filler_names = <<FillJob>>
    /\ created_at = [j \in BatchJobs |-> MaxTime]
    /\ url = TRUE
    /\ queue = <<>>
    /\ spc = "done"
    /\ observed = <<>>
    /\ free_profile = NoProfile
    /\ launched = <<FillJob>>
    /\ cfgProfile = [j \in Jobs |-> IF j = FillJob THEN Pool[NumProfiles] ELSE NoProfile]
    /\ metaUrl = [j \in Jobs |-> j = FillJob]
    /\ status = [j \in Jobs |-> Status.PENDING]
    /\ lock = {Pool[NumProfiles]}
    /\ wpc = [j \in Jobs |-> IF j = FillJob THEN "body" ELSE "idle"]
    /\ profile = [j \in Jobs |-> IF j = FillJob THEN Pool[NumProfiles] ELSE NoProfile]
    /\ session = [j \in Jobs |-> j = FillJob]
    /\ touched = [j \in Jobs |-> j = FillJob]
    /\ mstatus = [j \in Jobs |-> Status.PENDING]
    /\ ret = [j \in Jobs |-> "none"]
    /\ form \in Forms
    /\ f_submit \in BOOLEAN
    /\ merged_data \in MergedConfigs
    /\ f_located = <<>>
    /\ f_match = <<>>
    /\ f_applied = {}
    /\ f_retries = ModelValidate(merged_data)
    /\ f_pc = "new"
    /\ f_page = 0
    /\ f_nq = 0
    /\ f_q = 0
    /\ f_ne = 0
    /\ f_e = 0
    /\ f_attempt = 0
    /\ filled_count = 0
    /\ f_success = FALSE
    /\ f_okQ = {}
    /\ f_failQ = {}
    /\ f_counts = <<>>
    /\ f_nextClicks = 0
    /\ f_clickRaised = FALSE
    /\ f_submitClicks = 0
    /\ f_submitted = FALSE
    /\ f_raised = FALSE
    /\ ExtIdle

\* FormFiller.run lines 401-404: the except branch
RunRaised ==
    /\ f_pc' = "finished"
    /\ f_raised' = TRUE
    /\ f_success' = FALSE

\* FillerWorker.run lines 95-107: driver.get(url) and FormFiller(...);
\* an exception here goes to FillerWorker.run's own except branch
F_Open ==
    /\ f_pc = "new"
    /\ \/ /\ f_pc' = "fill"
          /\ UNCHANGED <<wpc, mstatus, ret>>
       \/ /\ f_pc' = "aborted"
          /\ mstatus' = [mstatus EXCEPT ![FillJob] = StatusOfRun("raised")]
          /\ ret' = [ret EXCEPT ![FillJob] = "false"]
          /\ wpc' = [wpc EXCEPT ![FillJob] = "finally"]
    /\ UNCHANGED <<extVars, f_located, schedVars, fileVars, lock, profile, session, touched,
                   exprVars, merged_data, form, f_submit, f_retries, f_page, f_nq, f_q, f_ne, f_e, f_attempt,
                   filled_count, f_success, f_okQ, f_failQ, f_counts, f_nextClicks,
                   f_clickRaised, f_submitClicks, f_submitted, f_raised>>

\* run lines 371-377, fill_current_page_with_dsl lines 248-251:
\* locate the page's question containers (find_elements may raise)
F_FillBegin ==
    /\ f_pc = "fill"
    /\ \/ /\ \E n \in 0..MaxQuestions : f_nq' = n
          /\ f_q' = 1
          /\ filled_count' = 0
          /\ f_okQ' = {}
          /\ f_failQ' = {}
          /\ f_pc' = "question"
          /\ UNCHANGED <<f_raised, f_success>>
       \/ /\ RunRaised
          /\ UNCHANGED <<f_nq, f_q, filled_count, f_okQ, f_failQ>>
    /\ UNCHANGED <<extVars, f_located, schedVars, fileVars, lock, workerVars,
                   exprVars, merged_data, form, f_submit, f_retries, f_page, f_ne, f_e, f_attempt,
                   f_counts, f_nextClicks, f_clickRaised, f_submitClicks, f_submitted>>

\* lines 253-268: read the question's text (may raise, outside the try),
\* classify the container (a failure is swallowed: continue), take the
\* kind's response map, of n expressions
F_Question ==
    /\ f_pc = "question"
    /\ f_q <= f_nq
    /\ \/ /\ \E n \in 0..MaxExprs : f_ne' = n
          /\ f_e' = 1
          /\ f_match' = <<>>
          /\ f_applied' = {}
          /\ f_pc' = "expr"
          /\ UNCHANGED <<f_q, f_failQ, f_raised, f_success>>
       \/ /\ f_q' = f_q + 1
          /\ f_failQ' = f_failQ \cup {f_q}
          /\ UNCHANGED <<f_ne, f_e, f_pc, f_raised, f_success, exprVars>>
       \/ /\ RunRaised
          /\ UNCHANGED <<f_q, f_ne, f_e, f_failQ, exprVars>>
    /\ UNCHANGED <<extVars, f_located, schedVars, fileVars, lock, workerVars,
                   merged_data, form, f_submit, f_retries, f_page, f_nq, f_attempt, filled_count,
                   f_okQ, f_counts, f_nextClicks, f_clickRaised, f_submitClicks, f_submitted>>

\* line 271, if match(...): of True, False and None only True is truthy
Truthy(m) == m = "true"

\* lines 270-271: the next expression of the response map, matched against
\* the label; match returns True, False or None
F_Expr ==
    /\ f_pc = "expr"
    /\ IF f_e > f_ne
       THEN /\ f_q' = f_q + 1
            /\ f_pc' = "question"
            /\ UNCHANGED <<f_e, f_attempt, f_match>>
       ELSE \E m \in {"true", "false", "none"} :
               /\ f_match' = Append(f_match, m)
               /\ IF Truthy(m) /\ f_retries > 0
                  THEN /\ f_pc' = "attempt"
                       /\ f_attempt' = 1
                       /\ UNCHANGED <<f_q, f_e>>
                  ELSE /\ f_e' = f_e + 1
                       /\ UNCHANGED <<f_q, f_pc, f_attempt>>
    /\ UNCHANGED <<extVars, f_located, schedVars, fileVars, lock, workerVars,
                   f_applied, merged_data, form, f_submit, f_retries, f_page, f_nq, f_ne, filled_count,
                   f_success, f_okQ, f_failQ, f_counts, f_nextClicks, f_clickRaised,
                   f_submitClicks, f_submitted, f_raised>>

\* the mutation of the count: every attempt counts
FilledCountEveryAttempt(count, ok) == count + 1

\* lines 272-277: filled_count += 1 when _fill_question returned True
FilledCount(count, ok) == IF ok THEN count + 1 ELSE count

\* _attempt_to_fill_question lines 209-223: True when push returned a truthy
\* value, False when it returned a falsy one or raised
AttemptSucceeded(outcome) == outcome = "ok"

\* lines 232-239 and 272-278: one attempt of _fill_question; success counts
\* the question and breaks out of the expressions, the last failed attempt
\* goes on with the next expression
F_Attempt ==
    /\ f_pc = "attempt"
    /\ f_applied' = f_applied \cup {f_e}
    /\ \E outcome \in {"ok", "false", "raise"} :
          /\ filled_count' = FilledCount(filled_count, AttemptSucceeded(outcome))
          /\ IF AttemptSucceeded(outcome)
             THEN /\ f_okQ' = f_okQ \cup {f_q}
                  /\ f_q' = f_q + 1
                  /\ f_pc' = "question"
                  /\ UNCHANGED <<f_e, f_attempt, f_failQ>>
             ELSE /\ f_failQ' = f_failQ \cup {f_q}
                  /\ IF f_attempt < f_retries
                     THEN /\ f_attempt' = f_attempt + 1
                          /\ UNCHANGED <<f_e, f_pc>>
                     ELSE /\ f_e' = f_e + 1
                          /\ f_pc' = "expr"
                          /\ UNCHANGED f_attempt
                  /\ UNCHANGED <<f_q, f_okQ>>
    /\ UNCHANGED <<extVars, f_located, schedVars, fileVars, lock, workerVars,
                   f_match, merged_data, form, f_submit, f_retries, f_page, f_nq, f_ne, f_success,
                   f_counts, f_nextClicks, f_clickRaised, f_submitClicks, f_submitted, f_raised>>

\* lines 280-281 and run lines 378-381: the page is filled, filled_count is
\* returned; the PDF snapshot is best-effort
F_PageDone ==
    /\ f_pc = "question"
    /\ f_q > f_nq
    /\ f_counts' = Append(f_counts, filled_count)
    /\ f_pc' = "navigate"
    /\ UNCHANGED <<extVars, f_located, schedVars, fileVars, lock, workerVars,
                   exprVars, merged_data, form, f_submit, f_retries, f_page, f_nq, f_q, f_ne, f_e, f_attempt,
                   filled_count, f_success, f_okQ, f_failQ, f_nextClicks,
                   f_clickRaised, f_submitClicks, f_submitted, f_raised>>

\* the mutation of the choice of the locator: one locator on every page
NextButtonOnEveryPage(page) == "NEXT_BUTTON"

\* _navigate_to_next_page lines 324-327: the locator of the next control
NextButtonElement(page) ==
    IF page = 0 THEN "NEXT_BUTTON_ON_FIRST_SECTION" ELSE "NEXT_BUTTON"

\* the mutation of _navigate_to_next_page: the page index is incremented
\* before the click, so that a click that raises counts as well
F_NavigateCountsEveryClick ==
    /\ f_pc = "navigate"
    /\ f_located' = IF CurrentPage.submit
                    THEN f_located
                    ELSE Append(f_located, [page |-> f_page,
                                            element |-> NextButtonElement(f_page)])
    /\ IF CurrentPage.submit \/ ~CurrentPage.next
       THEN /\ f_pc' = "submit"
            /\ UNCHANGED <<f_page, f_nextClicks, f_clickRaised>>
       ELSE \/ /\ f_page' = f_page + 1
               /\ f_nextClicks' = f_nextClicks + 1
               /\ f_pc' = "fill"
               /\ UNCHANGED f_clickRaised
            \/ /\ f_clickRaised' = TRUE
               /\ f_page' = f_page + 1
               /\ f_pc' = "submit"
               /\ UNCHANGED f_nextClicks
    /\ UNCHANGED <<extVars, schedVars, fileVars, lock, workerVars,
                   exprVars, merged_data, form, f_submit, f_retries, f_nq, f_q, f_ne, f_e, f_attempt,
                   filled_count, f_success, f_okQ, f_failQ, f_counts,
                   f_submitClicks, f_submitted, f_raised>>

\* _navigate_to_next_page lines 314-342: with a submit control on the page
\* nothing else is located; otherwise the next control is located with the
\* locator of the page index, and no click is made when it is not found; the
\* click advances the page, or raises
F_Navigate ==
    /\ f_pc = "navigate"
    /\ f_located' = IF CurrentPage.submit
                    THEN f_located
                    ELSE Append(f_located, [page |-> f_page,
                                            element |-> NextButtonElement(f_page)])
    /\ IF CurrentPage.submit \/ ~CurrentPage.next
       THEN /\ f_pc' = "submit"
            /\ UNCHANGED <<f_page, f_nextClicks, f_clickRaised>>
       ELSE \/ /\ f_page' = f_page + 1
               /\ f_nextClicks' = f_nextClicks + 1
               /\ f_pc' = "fill"
               /\ UNCHANGED f_clickRaised
            \/ /\ f_clickRaised' = TRUE
               /\ f_pc' = "submit"
               /\ UNCHANGED <<f_page, f_nextClicks>>
    /\ UNCHANGED <<extVars, schedVars, fileVars, lock, workerVars,
                   exprVars, merged_data, form, f_submit, f_retries, f_nq, f_q, f_ne, f_e, f_attempt,
                   filled_count, f_success, f_okQ, f_failQ, f_counts,
                   f_submitClicks, f_submitted, f_raised>>

\* the mutation of submit(): the configuration is not consulted
ClicksSubmitIgnoringConfig(requested, present) == present

\* submit lines 346-352: the submit control is clicked when submission is
\* requested and the control is found
ClicksSubmit(requested, present) == requested /\ present

\* run lines 386-400: success when submit() returned True, or when it
\* returned False and submission was not requested
RunSucceeds(requested, submitted) == submitted \/ ~requested

\* submit lines 344-363 and run lines 386-400
F_Submit ==
    /\ f_pc = "submit"
    /\ IF ClicksSubmit(f_submit, CurrentPage.submit)
       THEN /\ f_submitClicks' = f_submitClicks + 1
            /\ \E clicked \in BOOLEAN : f_submitted' = clicked
       ELSE /\ f_submitted' = FALSE
            /\ UNCHANGED f_submitClicks
    /\ f_success' = RunSucceeds(f_submit, f_submitted')
    /\ f_pc' = "finished"
    /\ UNCHANGED <<extVars, f_located, schedVars, fileVars, lock, workerVars,
                   exprVars, merged_data, form, f_submit, f_retries, f_page, f_nq, f_q, f_ne, f_e, f_attempt,
                   filled_count, f_okQ, f_failQ, f_counts, f_nextClicks,
                   f_clickRaised, f_raised>>

\* FillerWorker.run lines 110-115: the status of the run's result
F_Record ==
    /\ f_pc = "finished"
    /\ f_pc' = "returned"
    /\ mstatus' = [mstatus EXCEPT ![FillJob] =
                      StatusOfRun(IF f_success THEN "true" ELSE "false")]
    /\ ret' = [ret EXCEPT ![FillJob] = IF f_success THEN "true" ELSE "false"]
    /\ wpc' = [wpc EXCEPT ![FillJob] = "finally"]
    /\ UNCHANGED <<extVars, f_located, schedVars, fileVars, lock, profile, session, touched,
                   exprVars, merged_data, form, f_submit, f_retries, f_page, f_nq, f_q, f_ne, f_e, f_attempt,
                   filled_count, f_success, f_okQ, f_failQ, f_counts, f_nextClicks,
                   f_clickRaised, f_submitClicks, f_submitted, f_raised>>

NextFill ==
    \/ F_Open
    \/ F_FillBegin
    \/ F_Question
    \/ F_Expr
    \/ F_Attempt
    \/ F_PageDone
    \/ F_Navigate
    \/ F_Submit
    \/ F_Record

SpecFill == InitFill /\ [][NextFill]_vars

\* ----------------------------------------------- identify_response_type

\* RESPONSE_HANDLERS, the order in which the handlers are tried
RESPONSE_HANDLERS ==
    <<"FILE_UPLOAD", "TIME", "DATE", "CHECKBOXES", "RADIO", "LISTBOX", "TEXT">>

\* the enumeration GoogleFormElement: of the names the handlers read, the
\* ones that are members (LIST and ANY are not); reading a name that is no
\* member raises AttributeError
GoogleFormElement ==
    {"BUTTON", "CHECKBOX", "RADIO", "TEXT_INPUT", "DATE", "LISTBOX",
     "TIME_HOUR", "TIME_MINUTE", "QUESTION_DESCRIPTION"}

\* what a question container can hold: the structures the set_type methods
\* look for, and the description that makes it a valid container
ContainerElements == GoogleFormElement \cup {"LIST"}

\* the elements each handler's set_type locates in the container
ProbeElements(kind) ==
    CASE kind = "FILE_UPLOAD" -> {"LIST", "BUTTON"}
      [] kind = "TIME" -> {"TIME_HOUR", "TIME_MINUTE"}
      [] kind = "DATE" -> {"DATE"}
      [] kind = "CHECKBOXES" -> {"CHECKBOX"}
      [] kind = "RADIO" -> {"RADIO"}
      [] kind = "LISTBOX" -> {"LISTBOX"}
      [] OTHER -> {"TEXT_INPUT"}

\* Handler(question_element): BaseResponse.__init__ and set_type.  "ok" when
\* the handler is built, "mismatch" for ElementTypeMismatchError, "error" for
\* any other exception
SetType(kind, elems) ==
    IF "QUESTION_DESCRIPTION" \notin elems THEN "error"
    ELSE IF ~(ProbeElements(kind) \subseteq GoogleFormElement) THEN "error"
    ELSE IF ProbeElements(kind) \subseteq elems THEN "ok"
    ELSE "mismatch"

InitClassify ==
    /\ SchedIdle
    /\ FillIdle
    /\ IdleExceptClassify
    /\ c_elems \in SUBSET ContainerElements
    /\ c_pc = "validate"
    /\ c_i = 0
    /\ c_result = "none"

\* lines 62-67: _validate_question_element, its error is raised again
C_Validate ==
    /\ c_pc = "validate"
    /\ IF "QUESTION_DESCRIPTION" \in c_elems
       THEN /\ c_pc' = "probe"
            /\ c_i' = 1
            /\ UNCHANGED c_result
       ELSE /\ c_pc' = "done"
            /\ c_result' = "QuestionNotAFormQuestionError"
            /\ UNCHANGED c_i
    /\ UNCHANGED <<c_elems, exceptClassify>>

\* lines 69-80: one turn of the loop over RESPONSE_HANDLERS; both except
\* branches go on with the next handler
C_Probe ==
    /\ c_pc = "probe"
    /\ c_i <= Len(RESPONSE_HANDLERS)
    /\ IF SetType(RESPONSE_HANDLERS[c_i], c_elems) = "ok"
       THEN /\ c_result' = RESPONSE_HANDLERS[c_i]
            /\ c_pc' = "done"
            /\ UNCHANGED c_i
       ELSE /\ c_i' = c_i + 1
            /\ UNCHANGED <<c_pc, c_result>>
    /\ UNCHANGED <<c_elems, exceptClassify>>

\* line 82: raise ElementTypeMismatchError("Unknown", ...)
C_Unknown ==
    /\ c_pc = "probe"
    /\ c_i > Len(RESPONSE_HANDLERS)
    /\ c_result' = "Unknown"
    /\ c_pc' = "done"
    /\ UNCHANGED <<c_elems, c_i, exceptClassify>>

NextClassify ==
    \/ C_Validate
    \/ C_Probe
    \/ C_Unknown

SpecClassify == InitClassify /\ [][NextClassify]_vars

\* ------------------------------------------------- CheckboxResponse.push

\* the checkbox sets: of every option, what match(label, expression) gives
\* for the expression applied ("nolabel": the option has no aria-label) and
\* whether it is checked
CheckboxSets ==
    UNION {[1..n -> [sel : {"true", "false", "none", "nolabel"}, checked : BOOLEAN]]
           : n \in 1..MaxOptions}

\* the mutation of the click decision: a matching option is clicked again
ShouldClickMatching(sel, checked) == sel = "true" \/ (sel = "false" /\ checked)

\* lines 53-70: click to check a matching option that is not checked, click
\* to uncheck a non-matching option that is checked
ShouldClick(sel, checked) == (sel = "true" /\ ~checked) \/ (sel = "false" /\ checked)

\* lines 73-77
PushResult(clicks, n) == ~(clicks = 0 /\ n = 0)

\* the same expression is pushed twice on one handler
InitCheckbox ==
    /\ SchedIdle
    /\ FillIdle
    /\ IdleExceptCheckbox
    /\ k_opts \in CheckboxSets
    /\ k_pc = "loop"
    /\ k_push = 1
    /\ k_i = 1
    /\ successful_clicks = 0
    /\ k_clicks = <<0>>
    /\ k_ret = <<>>
    /\ k_clickFailed = FALSE

\* lines 37-70: one turn of the loop over self._all_checkboxes; a click
\* toggles the option, or raises and is logged
K_Option ==
    /\ k_pc = "loop"
    /\ k_i <= Len(k_opts)
    /\ LET o == k_opts[k_i] IN
       IF o.sel # "nolabel" /\ ShouldClick(o.sel, o.checked)
       THEN /\ k_clicks' = [k_clicks EXCEPT ![k_push] = @ + 1]
            /\ \/ /\ k_opts' = [k_opts EXCEPT ![k_i].checked = ~o.checked]
                  /\ successful_clicks' =
                         IF o.sel = "true" THEN successful_clicks + 1 ELSE successful_clicks
                  /\ UNCHANGED k_clickFailed
               \/ /\ k_clickFailed' = TRUE
                  /\ UNCHANGED <<k_opts, successful_clicks>>
       ELSE UNCHANGED <<k_opts, k_clicks, successful_clicks, k_clickFailed>>
    /\ k_i' = k_i + 1
    /\ UNCHANGED <<k_pc, k_push, k_ret, exceptCheckbox>>

\* lines 73-77: the push returns; the second push follows the first
K_Return ==
    /\ k_pc = "loop"
    /\ k_i > Len(k_opts)
    /\ k_ret' = Append(k_ret, PushResult(successful_clicks, Len(k_opts)))
    /\ IF k_push = 1
       THEN /\ k_push' = 2
            /\ k_i' = 1
            /\ successful_clicks' = 0
            /\ k_clicks' = Append(k_clicks, 0)
            /\ UNCHANGED k_pc
       ELSE /\ k_pc' = "done"
            /\ UNCHANGED <<k_push, k_i, successful_clicks, k_clicks>>
    /\ UNCHANGED <<k_opts, k_clickFailed, exceptCheckbox>>

NextCheckbox ==
    \/ K_Option
    \/ K_Return

SpecCheckbox == InitCheckbox /\ [][NextCheckbox]_vars

\* ---------------------------------------------------- RadioResponse.push

\* the radio groups: of every option, what match(label, expression) gives
\* ("nolabel": no aria-label) and whether it is selected; at most one option
\* of a group is selected
RadioSets ==
    {g \in UNION {[1..n -> [sel : {"true", "false", "none", "nolabel"}, selected : BOOLEAN]]
                  : n \in 1..MaxOptions} :
        \A i, k \in 1..Len(g) : (g[i].selected /\ g[k].selected) => i = k}

\* a click selects the option and deselects the others
Select(g, i) == [k \in 1..Len(g) |-> [g[k] EXCEPT !.selected = (k = i)]]

InitRadio ==
    /\ SchedIdle
    /\ FillIdle
    /\ IdleExceptRadio
    /\ r_opts \in RadioSets
    /\ r_init = r_opts
    /\ r_pc = "loop"
    /\ r_i = 1
    /\ found_match = FALSE
    /\ r_evaluated = {}
    /\ r_clicked = <<>>
    /\ r_ret = "none"

\* lines 39-64: one turn of the loop over self._all_radio_options; the break
\* follows the click only, a click that raises leaves push
R_Option ==
    /\ r_pc = "loop"
    /\ r_i <= Len(r_opts)
    /\ LET o == r_opts[r_i] IN
       IF o.sel = "nolabel"
       THEN /\ r_i' = r_i + 1
            /\ UNCHANGED <<r_opts, r_pc, found_match, r_evaluated, r_clicked, r_ret>>
       ELSE /\ r_evaluated' = r_evaluated \cup {r_i}
            /\ IF o.sel = "true"
               THEN IF ~o.selected
                    THEN /\ r_clicked' = Append(r_clicked, r_i)
                         /\ \/ /\ r_opts' = Select(r_opts, r_i)
                               /\ found_match' = TRUE
                               /\ r_pc' = "return"
                               /\ UNCHANGED <<r_i, r_ret>>
                            \/ /\ r_ret' = "raised"
                               /\ r_pc' = "done"
                               /\ UNCHANGED <<r_opts, r_i, found_match>>
                    ELSE /\ found_match' = TRUE
                         /\ r_i' = r_i + 1
                         /\ UNCHANGED <<r_opts, r_pc, r_clicked, r_ret>>
               ELSE /\ r_i' = r_i + 1
                    /\ UNCHANGED <<r_opts, r_pc, found_match, r_clicked, r_ret>>
    /\ UNCHANGED <<r_init, exceptRadio>>

\* the loop is exhausted
R_LoopEnd ==
    /\ r_pc = "loop"
    /\ r_i > Len(r_opts)
    /\ r_pc' = "return"
    /\ UNCHANGED <<r_opts, r_init, r_i, found_match, r_evaluated, r_clicked, r_ret, exceptRadio>>

\* lines 66-70
R_Return ==
    /\ r_pc = "return"
    /\ r_ret' = IF found_match THEN "true" ELSE "false"
    /\ r_pc' = "done"
    /\ UNCHANGED <<r_opts, r_init, r_i, found_match, r_evaluated, r_clicked, exceptRadio>>

NextRadio ==
    \/ R_Option
    \/ R_LoopEnd
    \/ R_Return

SpecRadio == InitRadio /\ [][NextRadio]_vars

\* ------------------------------------- _fill_question and DateResponse.push

\* answers, as sequences of characters: "d" a digit, "x" a letter, "\n" a
\* line end
DateAnswers ==
    {<<"d", "d", "d", "d", "-", "d", "d", "-", "d", "d">>,
     <<"d", "d", "d", "d", "-", "d", "d", "-", "d", "d", "\n">>,
     <<"d", "d", "-", "d", "d", "-", "d", "d", "d", "d">>,
     <<"d", "d", "d", "d", "-", "d", "-", "d">>,
     <<"d", "d", "d", "d", "/", "d", "d", "/", "d", "d">>,
     <<"x", "d", "d", "d", "-", "d", "d", "-", "d", "d">>,
     <<"d", "d", "d", "d", "-", "d", "d", "-", "d", "d", "x">>,
     <<>>}

\* the shape YYYY-MM-DD
IsIsoDate(a) ==
    /\ Len(a) = 10
    /\ \A i \in {1, 2, 3, 4, 6, 7, 9, 10} : a[i] = "d"
    /\ \A i \in {5, 8} : a[i] = "-"

\* re.compile(r'^\d{4}-\d{2}-\d{2}$').match(a): $ matches at the end and before
\* a line end that ends the string
DatePatternMatches(a) ==
    \/ IsIsoDate(a)
    \/ (Len(a) = 11 /\ a[11] = "\n" /\ IsIsoDate(SubSeq(a, 1, 10)))

InitDate ==
    /\ SchedIdle
    /\ FillIdle
    /\ IdleExceptDate
    /\ d_answer \in DateAnswers
    /\ d_retries \in 0..MaxRetries
    /\ d_field \in {"empty", "old"}
    /\ d_pc = "loop"
    /\ d_attempt = 0
    /\ d_touched = FALSE
    /\ d_errors = <<>>
    /\ d_result = "none"

\* _fill_question lines 232-239: for attempt in range(self._max_retries)
D_Attempt ==
    /\ d_pc = "loop"
    /\ IF d_attempt < d_retries
       THEN /\ d_attempt' = d_attempt + 1
            /\ d_pc' = "validate"
            /\ UNCHANGED d_result
       ELSE /\ d_result' = "false"
            /\ d_pc' = "done"
            /\ UNCHANGED d_attempt
    /\ UNCHANGED <<d_answer, d_retries, d_field, d_touched, d_errors, exceptDate>>

\* DateResponse.push lines 35-45: InvalidResponseExpressionError, which
\* _attempt_to_fill_question (lines 220-223) catches and turns into False
D_Validate ==
    /\ d_pc = "validate"
    /\ IF DatePatternMatches(d_answer)
       THEN /\ d_pc' = "clear"
            /\ UNCHANGED d_errors
       ELSE /\ d_errors' = Append(d_errors, "invalid")
            /\ d_pc' = "loop"
    /\ UNCHANGED <<d_answer, d_retries, d_field, d_attempt, d_touched, d_result, exceptDate>>

\* line 48: self._input_element.clear(), or it raises
D_Clear ==
    /\ d_pc = "clear"
    /\ \/ /\ d_field' = "empty"
          /\ d_touched' = TRUE
          /\ d_pc' = "send"
          /\ UNCHANGED d_errors
       \/ /\ d_errors' = Append(d_errors, "webdriver")
          /\ d_pc' = "loop"
          /\ UNCHANGED <<d_field, d_touched>>
    /\ UNCHANGED <<d_answer, d_retries, d_attempt, d_result, exceptDate>>

\* lines 49-53: send_keys and return True, or it raises
D_SendKeys ==
    /\ d_pc = "send"
    /\ \/ /\ d_field' = "answer"
          /\ d_result' = "true"
          /\ d_pc' = "done"
          /\ UNCHANGED d_errors
       \/ /\ d_errors' = Append(d_errors, "webdriver")
          /\ d_pc' = "loop"
          /\ UNCHANGED <<d_field, d_result>>
    /\ UNCHANGED <<d_answer, d_retries, d_attempt, d_touched, exceptDate>>

NextDate ==
    \/ D_Attempt
    \/ D_Validate
    \/ D_Clear
    \/ D_SendKeys

SpecDate == InitDate /\ [][NextDate]_vars

\* ------------------------------- _fill_question and FileUploadResponse.push

\* what one call of push did: whether a file was attached when it began, how
\* it ended, and whether it opened the picker, switched frame context and
\* injected a path
PushCall(attached, outcome, uploaded) ==
    [attached |-> attached, ret |-> outcome, picker |-> uploaded,
     frame |-> uploaded, injected |-> uploaded]

\* the question is applied twice, each time with the engine's retry loop
InitUpload ==
    /\ SchedIdle
    /\ FillIdle
    /\ IdleExceptUpload
    /\ u_attached \in BOOLEAN
    /\ u_path \in {"empty", "missing", "file"}
    /\ u_retries \in 0..MaxRetries
    /\ u_pc = "loop"
    /\ u_apply = 1
    /\ u_attempt = 0
    /\ u_calls = <<>>
    /\ u_results = <<>>

\* _fill_question lines 232-239: for attempt in range(self._max_retries)
U_Attempt ==
    /\ u_pc = "loop"
    /\ u_attempt < u_retries
    /\ u_attempt' = u_attempt + 1
    /\ u_pc' = "push"
    /\ UNCHANGED <<u_attached, u_path, u_retries, u_apply, u_calls, u_results, exceptUpload>>

\* _fill_question line 239: return False; the next apply begins
U_GiveUp ==
    /\ u_pc = "loop"
    /\ u_attempt = u_retries
    /\ u_results' = Append(u_results, FALSE)
    /\ u_attempt' = 0
    /\ IF u_apply = 1
       THEN u_apply' = 2 /\ UNCHANGED u_pc
       ELSE u_pc' = "done" /\ UNCHANGED u_apply
    /\ UNCHANGED <<u_attached, u_path, u_retries, u_calls, exceptUpload>>

\* FileUploadResponse.push lines 147-179 under _attempt_to_fill_question
\* (lines 209-223): line 147 reads GoogleFormElement.ANY first; with a file
\* attached push returns True; a path that is empty or names no file raises
\* InvalidResponseExpressionError; otherwise the picker workflow attaches the
\* file or raises
U_Push ==
    /\ u_pc = "push"
    /\ \E out \in {"AttributeError", "true", "invalid", "uploaded", "failed"} :
          /\ out = "AttributeError" <=> "ANY" \notin GoogleFormElement
          /\ out = "true" => u_attached
          /\ out = "invalid" => (~u_attached /\ u_path # "file")
          /\ out \in {"uploaded", "failed"} => (~u_attached /\ u_path = "file")
          /\ u_calls' = Append(u_calls,
                               PushCall(u_attached, out, out \in {"uploaded", "failed"}))
          /\ u_attached' = (u_attached \/ out = "uploaded")
          /\ IF out \in {"true", "uploaded"}
             THEN /\ u_results' = Append(u_results, TRUE)
                  /\ u_attempt' = 0
                  /\ IF u_apply = 1
                     THEN u_apply' = 2 /\ u_pc' = "loop"
                     ELSE u_pc' = "done" /\ UNCHANGED u_apply
             ELSE /\ u_pc' = "loop"
                  /\ UNCHANGED <<u_results, u_attempt, u_apply>>
    /\ UNCHANGED <<u_path, u_retries, exceptUpload>>

NextUpload ==
    \/ U_Attempt
    \/ U_GiveUp
    \/ U_Push

SpecUpload == InitUpload /\ [][NextUpload]_vars

\* ------------------------------------------------------ the DSL: the lexer

\* strings are sequences of one-character strings; positions count from 0
None == ""
Backslash == "\\"
Quotes == {"\"", "'"}
Operators == {"&", "|", "~", "<", "(", ")"}
IsSpace(c) == c \in {" ", "\n", "\t"}

\* Lexer.current_char: the character at the position, None past the end
CurrentChar(input, position) ==
    IF position < Len(input) THEN input[position + 1] ELSE None

Token(type, value) == [type |-> type, value |-> value]

\* what a read returns: the token's value and the position after it, or
\* the LexerError it raised
Read(value, position) == [ok |-> TRUE, value |-> value, position |-> position]
LexerError == [ok |-> FALSE, value |-> <<>>, position |-> 0]

\* Lexer.read_word from a position with the characters read so far: a
\* backslash takes the next character literally and raises at the end of
\* input; an operator or a space ends the word
RECURSIVE read_word(_, _, _)
read_word(input, position, result) ==
    LET c == CurrentChar(input, position)
    IN  IF c = Backslash
        THEN IF CurrentChar(input, position + 1) = None
             THEN LexerError
             ELSE read_word(input, position + 2,
                            Append(result, CurrentChar(input, position + 1)))
        ELSE IF c = None \/ c \in Operators \/ IsSpace(c)
        THEN IF result = <<>> THEN LexerError ELSE Read(result, position)
        ELSE read_word(input, position + 1, Append(result, c))

\* the escape sequences of a quoted string
Unescape(c, quote_char) ==
    IF c = "n" THEN "\n" ELSE IF c = "t" THEN "\t" ELSE c

\* Lexer.read_quoted_string after the opening quote: the closing quote ends
\* it; the end of input raises, after a backslash too
RECURSIVE read_quoted_string(_, _, _, _)
read_quoted_string(input, position, quote_char, result) ==
    LET c == CurrentChar(input, position)
    IN  IF c = None
        THEN LexerError
        ELSE IF c = Backslash
        THEN IF CurrentChar(input, position + 1) = None
             THEN LexerError
             ELSE read_quoted_string(input, position + 2, quote_char,
                      Append(result, Unescape(CurrentChar(input, position + 1), quote_char)))
        ELSE IF c = quote_char
        THEN Read(result, position + 1)
        ELSE read_quoted_string(input, position + 1, quote_char, Append(result, c))

OperatorType(c) ==
    CASE c = "&" -> "AND"
      [] c = "|" -> "OR"
      [] c = "~" -> "NOT"
      [] c = "<" -> "BEFORE"
      [] c = "(" -> "LPAREN"
      [] c = ")" -> "RPAREN"

\* Lexer.tokenize from a position with the tokens read so far: the token
\* list ending in EOF, or the LexerError
RECURSIVE tokenize(_, _, _)
tokenize(input, position, tokens) ==
    LET c == CurrentChar(input, position)
    IN  IF c = None
        THEN Read(Append(tokens, Token("EOF", <<>>)), position)
        ELSE IF IsSpace(c)
        THEN tokenize(input, position + 1, tokens)
        ELSE IF c \in Operators
        THEN tokenize(input, position + 1, Append(tokens, Token(OperatorType(c), <<c>>)))
        ELSE LET r == IF c \in Quotes
                      THEN read_quoted_string(input, position + 1, c, <<>>)
                      ELSE read_word(input, position, <<>>)
                 type == IF c \in Quotes THEN "QUOTED_STRING" ELSE "WORD"
             IN  IF r.ok
                 THEN tokenize(input, r.position, Append(tokens, Token(type, r.value)))
                 ELSE LexerError

\* ------------------------------------------------------ the DSL: the parser

WordNode(value) == [op |-> "Word", value |-> value]
QuotedStringNode(value) == [op |-> "QuotedString", value |-> value]
NotNode(operand) == [op |-> "Not", operand |-> operand]
AndNode(left, right) == [op |-> "And", left |-> left, right |-> right]
OrNode(left, right) == [op |-> "Or", left |-> left, right |-> right]
BeforeNode(left, right) == [op |-> "Before", left |-> left, right |-> right]

\* Parser.current_token: the type of the token at the position (from 1),
\* EOF past the end
CurrentType(tokens, pos) ==
    IF pos <= Len(tokens) THEN tokens[pos].type ELSE "EOF"

\* what a grammar rule returns: its node and the position after it, or the
\* ParserError it raised
Parsed(node, pos) == [ok |-> TRUE, node |-> node, pos |-> pos]
ParserError == [ok |-> FALSE, node |-> [op |-> "None"], pos |-> 0]

\* Parser.atom
atom(tokens, pos) ==
    CASE CurrentType(tokens, pos) \in {"WORD", "ESCAPED_WORD"} ->
             Parsed(WordNode(tokens[pos].value), pos + 1)
      [] CurrentType(tokens, pos) = "QUOTED_STRING" ->
             Parsed(QuotedStringNode(tokens[pos].value), pos + 1)
      [] OTHER -> ParserError

RECURSIVE expression(_, _)
RECURSIVE expression_loop(_, _, _)
RECURSIVE and_term(_, _)
RECURSIVE and_term_loop(_, _, _)
RECURSIVE before_term(_, _)
RECURSIVE before_term_loop(_, _, _)
RECURSIVE factor(_, _)

\* Parser.factor: NOT factor, LPAREN expression RPAREN, or an atom
factor(tokens, pos) ==
    CASE CurrentType(tokens, pos) = "NOT" ->
             LET r == factor(tokens, pos + 1)
             IN  IF r.ok THEN Parsed(NotNode(r.node), r.pos) ELSE ParserError
      [] CurrentType(tokens, pos) = "LPAREN" ->
             LET r == expression(tokens, pos + 1)
             IN  IF r.ok /\ CurrentType(tokens, r.pos) = "RPAREN"
                 THEN Parsed(r.node, r.pos + 1)
                 ELSE ParserError
      [] OTHER -> atom(tokens, pos)

\* Parser.before_term: factor (BEFORE factor)*, the while loop with the node
\* built so far
before_term_loop(tokens, node, pos) ==
    IF CurrentType(tokens, pos) = "BEFORE"
    THEN LET r == factor(tokens, pos + 1)
         IN  IF r.ok
             THEN before_term_loop(tokens, BeforeNode(node, r.node), r.pos)
             ELSE ParserError
    ELSE Parsed(node, pos)

before_term(tokens, pos) ==
    LET r == factor(tokens, pos)
    IN  IF r.ok THEN before_term_loop(tokens, r.node, r.pos) ELSE ParserError

\* Parser.and_term with AND binding tighter than BEFORE: the right operand
\* is a factor
RECURSIVE and_term_loop_tight(_, _, _)
and_term_loop_tight(tokens, node, pos) ==
    IF CurrentType(tokens, pos) = "AND"
    THEN LET r == factor(tokens, pos + 1)
         IN  IF r.ok
             THEN and_term_loop_tight(tokens, AndNode(node, r.node), r.pos)
             ELSE ParserError
    ELSE Parsed(node, pos)

\* Parser.and_term: before_term (AND before_term)*
and_term_loop(tokens, node, pos) ==
    IF CurrentType(tokens, pos) = "AND"
    THEN LET r == before_term(tokens, pos + 1)
         IN  IF r.ok
             THEN and_term_loop(tokens, AndNode(node, r.node), r.pos)
             ELSE ParserError
    ELSE Parsed(node, pos)

and_term(tokens, pos) ==
    LET r == before_term(tokens, pos)
    IN  IF r.ok THEN and_term_loop(tokens, r.node, r.pos) ELSE ParserError

\* Parser.expression: and_term (OR and_term)*
expression_loop(tokens, node, pos) ==
    IF CurrentType(tokens, pos) = "OR"
    THEN LET r == and_term(tokens, pos + 1)
         IN  IF r.ok
             THEN expression_loop(tokens, OrNode(node, r.node), r.pos)
             ELSE ParserError
    ELSE Parsed(node, pos)

expression(tokens, pos) ==
    LET r == and_term(tokens, pos)
    IN  IF r.ok THEN expression_loop(tokens, r.node, r.pos) ELSE ParserError

\* Parser.parse without the check that the expression ends the tokens
parse_prefix(tokens) ==
    IF CurrentType(tokens, 1) = "EOF"
    THEN ParserError
    ELSE expression(tokens, 1)

\* Parser.parse: no token is an error, and so is a token after the
\* expression
parse(tokens) ==
    IF CurrentType(tokens, 1) = "EOF"
    THEN ParserError
    ELSE LET r == expression(tokens, 1)
         IN  IF r.ok /\ CurrentType(tokens, r.pos) = "EOF" THEN r ELSE ParserError

\* --------------------------------------------------- the DSL: the evaluator

\* the value occurs in the text at the index
OccursAt(value, text, i) ==
    /\ i >= 0
    /\ i + Len(value) <= Len(text)
    /\ \A k \in 1..Len(value) : text[i + k] = value[k]

\* str.find(value, start): the least index from start on at which the value
\* occurs, -1 if there is none
Find(value, text, start) ==
    IF \E i \in start..Len(text) : OccursAt(value, text, i)
    THEN CHOOSE i \in start..Len(text) :
             /\ OccursAt(value, text, i)
             /\ \A j \in start..(i - 1) : ~OccursAt(value, text, j)
    ELSE -1

Min(a, b) == IF a <= b THEN a ELSE b

\* Evaluator._find_index
RECURSIVE _find_index(_, _, _)
_find_index(node, text, start) ==
    IF start >= Len(text)
    THEN -1
    ELSE CASE node.op \in {"Word", "QuotedString"} -> Find(node.value, text, start)
           [] node.op = "Or" ->
                  LET idx_left == _find_index(node.left, text, start)
                      idx_right == _find_index(node.right, text, start)
                  IN  IF idx_left = -1 THEN idx_right
                      ELSE IF idx_right = -1 THEN idx_left
                      ELSE Min(idx_left, idx_right)
           [] node.op = "And" ->
                  LET idx_left == _find_index(node.left, text, start)
                      idx_right == _find_index(node.right, text, start)
                  IN  IF idx_left # -1 /\ idx_right # -1
                      THEN Min(idx_left, idx_right)
                      ELSE -1
           [] node.op = "Before" ->
                  LET idx_left == _find_index(node.left, text, start)
                  IN  IF idx_left = -1
                      THEN -1
                      ELSE _find_index(node.right, text, idx_left + 1)
           [] OTHER -> -1

\* Evaluator._visit_before
_visit_before(node, text) ==
    LET left_index == _find_index(node.left, text, 0)
    IN  IF left_index = -1
        THEN FALSE
        ELSE _find_index(node.right, text, left_index + 1) # -1

\* Evaluator._visit
RECURSIVE _visit(_, _)
_visit(node, text) ==
    CASE node.op \in {"Word", "QuotedString"} -> Find(node.value, text, 0) # -1
      [] node.op = "And" -> _visit(node.left, text) /\ _visit(node.right, text)
      [] node.op = "Or" -> _visit(node.left, text) \/ _visit(node.right, text)
      [] node.op = "Not" -> ~_visit(node.operand, text)
      [] node.op = "Before" -> _visit_before(node, text)

\* Evaluator.evaluate without its test of the text
evaluate_unguarded(node, text) == _visit(node, text)

\* Evaluator.evaluate: nothing matches the empty text
evaluate(node, text) ==
    IF text = <<>> THEN FALSE ELSE _visit(node, text)

\* ---------------------------------------------------------------- match

\* str.lower on the characters of the alphabets
LowerChar(c) ==
    CASE c = "A" -> "a"
      [] c = "B" -> "b"
      [] c = "S" -> "s"
      [] OTHER -> c
Lower(s) == [k \in 1..Len(s) |-> LowerChar(s[k])]

SeqsUpTo(S, n) == UNION {[1..k -> S] : k \in 0..n}

ExprAlphabet == {"a", "b", "A", " ", Backslash, "\"", "'"} \cup Operators
TextAlphabet == {"a", "b", "A", " "}

\* every expression of up to MaxExprLen characters
CharExprs == SeqsUpTo(ExprAlphabet, MaxExprLen)

\* the trees of a given number of nodes over three literals
Literals == {WordNode(<<"a">>), WordNode(<<"b">>), QuotedStringNode(<<>>)}

RECURSIVE AstsOfSize(_)
AstsOfSize(n) ==
    IF n = 1
    THEN Literals
    ELSE {NotNode(x) : x \in AstsOfSize(n - 1)}
         \cup UNION {UNION {{AndNode(l, r), OrNode(l, r), BeforeNode(l, r)} :
                               l \in AstsOfSize(k), r \in AstsOfSize(n - 1 - k)} :
                        k \in 1..(n - 2)}

Asts == UNION {AstsOfSize(n) : n \in 1..MaxNodes}

\* the expression that writes a tree down, every binary node in parentheses
RECURSIVE Render(_)
Render(node) ==
    CASE node.op = "Word" -> node.value
      [] node.op = "QuotedString" -> <<"'">> \o node.value \o <<"'">>
      [] node.op = "Not" -> <<"~">> \o Render(node.operand)
      [] node.op = "And" -> <<"(">> \o Render(node.left) \o <<"&">> \o Render(node.right) \o <<")">>
      [] node.op = "Or" -> <<"(">> \o Render(node.left) \o <<"|">> \o Render(node.right) \o <<")">>
      [] node.op = "Before" -> <<"(">> \o Render(node.left) \o <<"<">> \o Render(node.right) \o <<")">>

\* the expression and the two texts of test_before_operator_strict_sequence
ExampleExpressions == {<<"a", " ", "<", " ", "b">>}
ExampleTexts == {<<"b", " ", "a", " ", "b">>, <<"b", " ", "a">>}

Expressions == CharExprs \cup {Render(t) : t \in Asts} \cup ExampleExpressions
Texts == SeqsUpTo(TextAlphabet, MaxTextLen) \cup ExampleTexts

InitMatch ==
    /\ SchedIdle
    /\ FillIdle
    /\ IdleExceptMatch
    /\ m_text \in Texts
    /\ m_expression \in Expressions
    /\ m_pc = "start"
    /\ m_tokens = <<>>
    /\ m_ast = [op |-> "None"]
    /\ m_result = "unset"
    /\ m_args = [text |-> m_text, expression |-> m_expression, ignore_case |-> TRUE]

\* match lines 32-33: the empty expression matches every text
M_Empty ==
    /\ m_pc = "start"
    /\ m_expression = <<>>
    /\ m_result' = "true"
    /\ m_pc' = "done"
    /\ UNCHANGED <<m_text, m_expression, m_tokens, m_ast, m_args, exceptMatch>>

\* match lines 36-39: with ignore_case the text and the expression are
\* rebound to their lower case
M_Lower ==
    /\ m_pc = "start"
    /\ m_expression # <<>>
    /\ m_text' = IF m_args.ignore_case THEN Lower(m_text) ELSE m_text
    /\ m_expression' = IF m_args.ignore_case THEN Lower(m_expression) ELSE m_expression
    /\ m_pc' = "lex"
    /\ UNCHANGED <<m_tokens, m_ast, m_result, m_args, exceptMatch>>

\* match lines 42-43 and 54-65: a LexerError is caught and None returned
M_Tokenize ==
    /\ m_pc = "lex"
    /\ LET r == tokenize(m_expression, 0, <<>>)
       IN  IF r.ok
           THEN m_tokens' = r.value /\ m_pc' = "parse" /\ UNCHANGED m_result
           ELSE m_result' = "none" /\ m_pc' = "done" /\ UNCHANGED m_tokens
    /\ UNCHANGED <<m_text, m_expression, m_ast, m_args, exceptMatch>>

\* match lines 46-47 and 54-65: a ParserError is caught and None returned;
\* the ValueError of Parser.__init__ on an empty token list is not caught
M_Parse ==
    /\ m_pc = "parse"
    /\ LET r == parse(m_tokens)
       IN  IF m_tokens = <<>>
           THEN m_result' = "ValueError" /\ m_pc' = "done" /\ UNCHANGED m_ast
           ELSE IF r.ok
           THEN m_ast' = r.node /\ m_pc' = "eval" /\ UNCHANGED m_result
           ELSE m_result' = "none" /\ m_pc' = "done" /\ UNCHANGED m_ast
    /\ UNCHANGED <<m_text, m_expression, m_tokens, m_args, exceptMatch>>

\* match lines 50-53: the value of the tree on the text
M_Evaluate ==
    /\ m_pc = "eval"
    /\ m_result' = IF evaluate(m_ast, m_text) THEN "true" ELSE "false"
    /\ m_pc' = "done"
    /\ UNCHANGED <<m_text, m_expression, m_tokens, m_ast, m_args, exceptMatch>>

NextMatch ==
    \/ M_Empty
    \/ M_Lower
    \/ M_Tokenize
    \/ M_Parse
    \/ M_Evaluate

SpecMatch == InitMatch /\ [][NextMatch]_vars

\* match as a function of its arguments
match(text, expr, ignore_case) ==
    IF expr = <<>>
    THEN "true"
    ELSE LET t == IF ignore_case THEN Lower(text) ELSE text
             e == IF ignore_case THEN Lower(expr) ELSE expr
             lexed == tokenize(e, 0, <<>>)
             parsed == parse(lexed.value)
         IN  IF ~lexed.ok \/ ~parsed.ok
             THEN "none"
             ELSE IF evaluate(parsed.node, t) THEN "true" ELSE "false"

\* texts and expressions with letters of both cases, and match called with
\* either value of ignore_case
CaseLetters == {"a", "A", "s", "S", "ß"}
CaseTexts == SeqsUpTo(CaseLetters, MaxTextLen)
CaseExprs == SeqsUpTo(CaseLetters \cup {"~", "<", " ", "'"}, MaxExprLen)

InitCase ==
    /\ SchedIdle
    /\ FillIdle
    /\ IdleExceptMatch
    /\ m_text \in CaseTexts
    /\ m_expression \in CaseExprs
    /\ m_pc = "start"
    /\ m_tokens = <<>>
    /\ m_ast = [op |-> "None"]
    /\ m_result = "unset"
    /\ \E ignore_case \in BOOLEAN :
          m_args = [text |-> m_text, expression |-> m_expression,
                    ignore_case |-> ignore_case]

SpecCase == InitCase /\ [][NextMatch]_vars

\* ------------------------------------------------ the Parser on token lists

Words == {Token("WORD", <<"a">>), Token("WORD", <<"b">>), Token("WORD", <<"c">>)}
BinaryOperators ==
    {Token("OR", <<"|">>), Token("AND", <<"&">>), Token("BEFORE", <<"<">>)}
TokenKinds ==
    Words \cup BinaryOperators
        \cup {Token("NOT", <<"~">>), Token("LPAREN", <<"(">>), Token("RPAREN", <<")">>)}

\* two operators over three words with one pair of parentheses
ParenLists ==
    {<<Token("LPAREN", <<"(">>), x, o1, y, Token("RPAREN", <<")">>), o2, z>> :
         x \in Words, y \in Words, z \in Words, o1 \in BinaryOperators, o2 \in BinaryOperators}
    \cup
    {<<x, o1, Token("LPAREN", <<"(">>), y, o2, z, Token("RPAREN", <<")">>)>> :
         x \in Words, y \in Words, z \in Words, o1 \in BinaryOperators, o2 \in BinaryOperators}

\* the token lists the lexer can hand over: they end in EOF
TokenLists ==
    {Append(s, Token("EOF", <<>>)) : s \in SeqsUpTo(TokenKinds, MaxTokens) \cup ParenLists}

InitParse ==
    /\ SchedIdle
    /\ FillIdle
    /\ IdleExceptParse
    /\ p_tokens \in TokenLists
    /\ p_pc = "new"
    /\ p_current = "unset"
    /\ p_ast = [op |-> "None"]
    /\ p_error = "none"

\* Parser.__init__ lines 23-28: the first token becomes the current one
P_Init ==
    /\ p_pc = "new"
    /\ IF p_tokens = <<>>
       THEN p_error' = "ValueError" /\ p_pc' = "done" /\ UNCHANGED p_current
       ELSE p_current' = p_tokens[1].type /\ p_pc' = "parse" /\ UNCHANGED p_error
    /\ UNCHANGED <<p_tokens, p_ast, exceptParse>>

\* Parser.parse lines 53-63
P_Parse ==
    /\ p_pc = "parse"
    /\ LET r == parse(p_tokens)
       IN  IF r.ok
           THEN p_ast' = r.node /\ p_current' = "EOF" /\ UNCHANGED p_error
           ELSE p_error' = "ParserError" /\ UNCHANGED <<p_ast, p_current>>
    /\ p_pc' = "done"
    /\ UNCHANGED <<p_tokens, exceptParse>>

NextParse ==
    \/ P_Init
    \/ P_Parse

SpecParse == InitParse /\ [][NextParse]_vars

\* ------------------------------------------------------- process_queue, fair

\* the jobs of earlier requests when the request names the jobs in names
EarlierJobs(names) == Jobs \ {names[n] : n \in 1..Len(names)}

\* process_queue is entered with a non-empty list of names while the jobs of
\* earlier requests have been handed to the thread pool; no lock artifact
\* exists before any execution has run. The jobs were created at the same
\* time, so that the stable sort keeps the order of the names, which is any.
InitLive ==
    /\ filler_names \in UNION {Perms(S) : S \in (SUBSET BatchJobs) \ {{}}}
    /\ created_at = [j \in BatchJobs |-> 1]
    /\ url \in BOOLEAN
    /\ queue = <<>>
    /\ spc = "init"
    /\ observed = <<>>
    /\ free_profile = NoProfile
    /\ launched = <<>>
    /\ cfgProfile \in {f \in [Jobs -> Profiles \cup {NoProfile}] :
                         \A j \in Jobs : f[j] = NoProfile <=> j \notin EarlierJobs(filler_names)}
    /\ metaUrl = [j \in Jobs |-> j \in EarlierJobs(filler_names)]
    /\ status = [j \in Jobs |-> Status.PENDING]
    /\ lock = {}
    /\ wpc = [j \in Jobs |-> IF j \in EarlierJobs(filler_names) THEN "submitted" ELSE "idle"]
    /\ profile = [j \in Jobs |-> NoProfile]
    /\ session = [j \in Jobs |-> FALSE]
    /\ touched = [j \in Jobs |-> FALSE]
    /\ mstatus = [j \in Jobs |-> Status.PENDING]
    /\ ret = [j \in Jobs |-> "none"]
    /\ FillIdle
    /\ ExtIdle

\* one step of the coroutine process_queue
SchedulerStep == SortQueue \/ ScanStep \/ Assign \/ Backoff \/ Wake \/ Finish

\* one step of the execution of FillerWorker.run for job j
WorkerStep(j) ==
    \/ W_Start(j)
    \/ W_OpenDriver(j)
    \/ W_Touch(j)
    \/ W_Body(j)
    \/ W_Finally(j)
    \/ W_LockExists(j)
    \/ W_Unlink(j)

\* the event loop resumes the coroutine (asyncio.sleep(5) returns) and the
\* thread pool runs every thread it was handed to its end
SpecLive ==
    /\ InitLive
    /\ [][Next]_vars
    /\ WF_vars(SchedulerStep)
    /\ \A j \in Jobs : WF_vars(WorkerStep(j))

\* ------------------------------------------------- properties of Spec

\* C1: no two job executions have a browser session open on the same profile
\* at the same time.
C1_ProfileMutualExclusion ==
    \A j, k \in Jobs :
        (j # k /\ session[j] /\ session[k]) => profile[j] # profile[k]

\* C2: the scheduler never stamps a profile onto a job while a job it launched
\* earlier with that profile has not yet ended: two launched jobs of the batch
\* that are both still running hold distinct profiles.
C2_ProfileClaimedByOneJob ==
    \A j, k \in BatchJobs :
        (j # k /\ Launched(j) /\ Launched(k) /\ ~Ended(j) /\ ~Ended(k))
            => cfgProfile[j] # cfgProfile[k]

\* C3: whenever a job execution that created its profile's lock artifact ends,
\* however it ends, the lock artifact is absent afterwards.
C3_LockReleasedAtEnd ==
    [][\A j \in Jobs :
          (touched[j] /\ ~Ended(j) /\ wpc'[j] = "ended") => profile[j] \notin lock']_vars

\* C4: every assignment gives the oldest remaining job of the batch (smallest
\* creation time) the first profile, in pool iteration order, that the scan
\* found without a lock artifact; each reading of the scan is the lock's state
\* when the profile was examined; over the batch the jobs are launched in
\* non-decreasing creation-time order.
C4_OldestJobFirstFreeProfile ==
    /\ [](\A i, k \in 1..Len(launched) :
             i < k => created_at[launched[i]] <= created_at[launched[k]])
    /\ [][(observed' # observed /\ observed' # <<>>) =>
             /\ observed' = Append(observed, Pool[Len(observed) + 1] \in lock)
             /\ (~observed'[Len(observed')] => free_profile' = Pool[Len(observed')])]_vars
    /\ [][launched' # launched =>
             LET c == launched'[Len(launched')] IN
             /\ launched' = Append(launched, c)
             /\ queue # <<>> /\ c = Head(queue) /\ queue' = Tail(queue)
             /\ \A i \in 1..Len(queue) : created_at[c] <= created_at[queue[i]]
             /\ cfgProfile'[c] = Pool[Len(observed)]
             /\ ~observed[Len(observed)]
             /\ \A i \in 1..(Len(observed) - 1) : observed[i]]_vars

\* C4's case: the first profile of the pool was found locked, the older job
\* got the second profile and the newer job waits in the queue.
C4_Witness ==
    /\ Len(launched) = 1
    /\ queue # <<>>
    /\ created_at[launched[1]] < created_at[Head(queue)]
    /\ cfgProfile[launched[1]] = Pool[2]
    /\ Pool[1] \in lock

\* C5: when the scan found every profile of the pool locked, the loop assigns
\* no job, leaves the queue unchanged and suspends (await asyncio.sleep) before
\* it scans again; no scan starts from the no-free-profile branch itself.
C5_NoFreeProfileBacksOff ==
    /\ [](spc \in {"backoff", "sleeping"} =>
             /\ observed = [i \in 1..NumProfiles |-> TRUE]
             /\ free_profile = NoProfile)
    /\ [][(spc \in {"backoff", "sleeping"}) =>
             (queue' = queue /\ launched' = launched /\ cfgProfile' = cfgProfile)]_vars
    /\ [][spc = "backoff" => spc' \in {"backoff", "sleeping"}]_vars
    /\ [][(spc # "scan" /\ spc' = "scan") => spc \in {"init", "found", "sleeping"}]_vars

\* C5's case: every profile is locked, jobs wait, the loop sleeps.
C5_Witness ==
    /\ spc = "sleeping"
    /\ queue # <<>>
    /\ lock = Profiles

\* C7: FillerWorker.run never lets an exception reach its launcher: every
\* failure is handled and yields a False return.
C7_RunNeverRaises ==
    \A j \in Jobs : ret[j] # "raised"

\* --------------------------------------------- properties of SpecFill

\* C6: an exception raised during FormFiller.run is recorded as status
\* "error"; "failed" is recorded only when the run returned False without any
\* exception, "completed" only when the run returned success.
C6_ExceptionRecordedAsError ==
    wpc[FillJob] = "finally" =>
        /\ f_raised => mstatus[FillJob] = Status.ERROR
        /\ mstatus[FillJob] = Status.FAILED =>
               (f_pc = "returned" /\ ~f_raised /\ ~f_success)
        /\ mstatus[FillJob] = Status.COMPLETED => (f_pc = "returned" /\ f_success)

\* the two-page form of the end-to-end scenario: page 1 has a next control,
\* page 2 only a submit control
TwoPageForm ==
    <<[submit |-> FALSE, next |-> TRUE], [submit |-> TRUE, next |-> FALSE]>>

\* C8: FormFiller.run returns success only if the last page was reached and
\* either the submit click succeeded or submission was not requested; it
\* returns failure when submission was requested and no submit control was
\* found; on the two-page form with submit=false, one field filled on page 1
\* and no failing browser call, it succeeds with the page index advanced
\* exactly once.
C8_SuccessOnlyOnLastPage ==
    f_pc \in {"finished", "returned"} =>
        /\ f_success => (LastPageReached /\ (f_submitted \/ ~f_submit))
        /\ (f_submit /\ ~f_raised /\ ~CurrentPage.submit) => ~f_success
        /\ (form = TwoPageForm /\ ~f_submit /\ ~f_raised /\ ~f_clickRaised)
               => (f_success /\ f_page + 1 = Len(form) /\ f_nextClicks + 1 = Len(form))

\* C9: the terminal submit control is clicked only if the configuration
\* requests submission, and at most once per run.
C9_SubmitOnlyWhenRequested ==
    /\ f_submitClicks > 0 => f_submit
    /\ f_submitClicks <= 1

\* C9's case: the run ended after its click on the submit control.
C9_Witness ==
    /\ f_pc = "finished"
    /\ f_submitClicks > 0
    /\ f_submitted

\* C10: within a page, a failed or raising apply, or a failed
\* classification, leaves the engine filling the same page, the questions are
\* taken one after the other up to the last, and the filled-count the page
\* reports is the number of its questions on which an apply succeeded.
C10_PageSurvivesQuestionFailures ==
    /\ [](f_pc = "navigate" =>
             /\ f_q = f_nq + 1
             /\ f_okQ \cup f_failQ \subseteq 1..f_nq
             /\ filled_count = Cardinality(f_okQ)
             /\ f_counts[Len(f_counts)] = filled_count)
    /\ [][(f_pc # "fill" /\ f_failQ' # f_failQ) =>
             (f_pc' \in {"question", "expr", "attempt"} /\ ~f_raised'
                  /\ f_nq' = f_nq /\ f_q' \in {f_q, f_q + 1})]_vars
    /\ [][(f_pc # "fill" /\ f_q' # f_q) => f_q' = f_q + 1]_vars

\* C10's case: a page whose earlier question failed and whose later question
\* was filled.
C10_Witness ==
    /\ f_pc = "navigate"
    /\ \E q \in f_failQ : \E r \in f_okQ : q < r /\ q \notin f_okQ
    /\ filled_count = Cardinality(f_okQ)

\* C11: an apply is attempted at most k times, k the configured attempt count
\* (one attempt and no retry when the configuration names none); the attempts
\* stop at the first success, and the apply is given up as failed only after
\* k failed attempts.
C11_AttemptsUpToConfiguredCount ==
    /\ []((f_pc = "attempt" /\ "max_retries" \notin DOMAIN merged_data)
             => f_attempt <= 1)
    /\ []((f_pc = "attempt" /\ "max_retries" \in DOMAIN merged_data)
             => f_attempt \in 1..merged_data["max_retries"])
    /\ [][(f_pc = "attempt" /\ f_okQ' # f_okQ) => f_pc' = "question"]_vars
    /\ [][(f_pc = "attempt" /\ f_pc' = "expr")
             => (f_attempt = f_retries /\ f_okQ' = f_okQ)]_vars

\* C12: the expressions of a question's kind are evaluated in insertion
\* order; an answer is pushed only for an expression whose match is true
\* (never for false or None), and only for the first expression that
\* matched: no later expression's answer is pushed for the same question.
C12_FirstMatchingExpressionApplied ==
    /\ [][(f_match' # f_match /\ f_match' # <<>>) =>
             (Len(f_match') = f_e /\ SubSeq(f_match', 1, Len(f_match)) = f_match)]_vars
    /\ [](\A e \in f_applied : e <= Len(f_match) /\ f_match[e] = "true")
    /\ [](\A e \in f_applied : \A i \in 1..(e - 1) : f_match[i] # "true")

\* ------------------------------------------ properties of SpecClassify

\* C13: a valid container is classified as the first kind, in the order
\* File-upload, Time, Date, Checkbox, Radio, Dropdown-listbox, Text, whose
\* structure it holds (so file-upload structure gives File-upload, and Date
\* with a text input gives Date); classification fails as unknown exactly
\* when it holds the structure of no kind.
C13_FirstProbeInFixedOrderWins ==
    (c_pc = "done" /\ "QUESTION_DESCRIPTION" \in c_elems) =>
        LET order == <<"FILE_UPLOAD", "TIME", "DATE", "CHECKBOXES", "RADIO",
                       "LISTBOX", "TEXT">>
            okIdx == {i \in 1..Len(order) : ProbeElements(order[i]) \subseteq c_elems}
        IN  /\ \A i \in okIdx : (\A k \in okIdx : i <= k) => c_result = order[i]
            /\ (c_result = "Unknown") <=> (okIdx = {})

\* ------------------------------------------ properties of SpecCheckbox

C15_RadioStopsAtFirstMatch ==
    /\ Len(r_clicked) <= 1
    /\ \A i \in r_evaluated : \A k \in 1..(i - 1) : r_init[k].sel # "true"
    /\ \A n \in 1..Len(r_clicked) :
          /\ r_init[r_clicked[n]].sel = "true"
          /\ ~r_init[r_clicked[n]].selected
          /\ \A k \in 1..(r_clicked[n] - 1) : r_init[k].sel # "true"
    /\ (r_pc = "done" /\ r_ret # "raised") =>
          ((r_ret = "false") <=> (\A k \in 1..Len(r_init) : r_init[k].sel # "true"))

\* ---------------------------------------------- properties of SpecDate

\* C16: for an answer that is not of the shape YYYY-MM-DD the apply fails
\* with the invalid-expression error, the field is neither cleared nor
\* written, and the apply is attempted exactly once whatever the (positive)
\* attempt count.
C16_MalformedDateNotRetried ==
    ~IsIsoDate(d_answer) =>
        /\ ~d_touched
        /\ \A i \in 1..Len(d_errors) : d_errors[i] = "invalid"
        /\ d_attempt <= 1
        /\ (d_pc = "done" /\ d_retries > 0) => (d_attempt = 1 /\ d_result = "false")

\* -------------------------------------------- properties of SpecUpload

Plain(e) == \A k \in 1..Len(e) : e[k] \notin Quotes \cup {Backslash}

\* the expression opens a quote that nothing closes
UnterminatedQuote(e) ==
    /\ Len(e) >= 1
    /\ e[1] \in Quotes
    /\ \A k \in 2..Len(e) : e[k] # e[1]

\* the expression ends in a backslash that nothing escapes
BackslashAtEnd(e) ==
    /\ Len(e) >= 1
    /\ e[Len(e)] = Backslash
    /\ Len(e) >= 2 => e[Len(e) - 1] # Backslash

\* the last character of the expression is an operator without operand
DanglingOperator(e) ==
    /\ Plain(e)
    /\ Len(e) >= 1
    /\ e[Len(e)] \in {"&", "|", "<", "~"}

\* the expression opens and closes different numbers of parentheses
UnbalancedParentheses(e) ==
    /\ Plain(e)
    /\ Cardinality({k \in 1..Len(e) : e[k] = "("})
           # Cardinality({k \in 1..Len(e) : e[k] = ")"})

\* two words with nothing but space between them: the second is left over
\* after the expression the first one makes
LeftoverTokens(e) ==
    /\ Plain(e)
    /\ \A k \in 1..Len(e) : e[k] \notin Operators
    /\ \E i, j, k \in 1..Len(e) :
          i < j /\ j < k /\ ~IsSpace(e[i]) /\ IsSpace(e[j]) /\ ~IsSpace(e[k])

IsLiteral(node) == node.op \in {"Word", "QuotedString"}

\* the index at which the earliest occurrence of the value starts
Earliest(value, text) ==
    CHOOSE i \in 0..Len(text) :
        /\ OccursAt(value, text, i)
        /\ \A j \in 0..(i - 1) : ~OccursAt(value, text, j)

\* C19: on a Before node with literal operands L and R match returns true
\* exactly if L occurs in the text and R has an occurrence that starts after
\* the start of the earliest occurrence of L; "a < b" matches "b a b" and
\* does not match "b a".
C19_BeforeIsStrictSequence ==
    m_pc = "done" =>
        /\ (m_ast.op = "Before" /\ IsLiteral(m_ast.left) /\ IsLiteral(m_ast.right)) =>
              (m_result = "true" <=>
                  /\ \E i \in 0..Len(m_text) : OccursAt(m_ast.left.value, m_text, i)
                  /\ \E j \in 0..Len(m_text) :
                        /\ j > Earliest(m_ast.left.value, m_text)
                        /\ OccursAt(m_ast.right.value, m_text, j))
        /\ (m_expression = <<"a", " ", "<", " ", "b">> /\ m_text = <<"b", " ", "a", " ", "b">>)
              => m_result = "true"
        /\ (m_expression = <<"a", " ", "<", " ", "b">> /\ m_text = <<"b", " ", "a">>)
              => m_result = "false"

\* the tree has a Not node
RECURSIVE ContainsNot(_)
ContainsNot(node) ==
    CASE node.op = "Not" -> TRUE
      [] node.op \in {"And", "Or", "Before"} -> ContainsNot(node.left) \/ ContainsNot(node.right)
      [] OTHER -> FALSE

\* C20: match returns false on every text for a Before node one of whose
\* operand subtrees has a Not node.
C20_BeforeOverNotIsFalse ==
    (/\ m_pc = "done"
     /\ m_ast.op = "Before"
     /\ ContainsNot(m_ast.left) \/ ContainsNot(m_ast.right))
        => m_result = "false"

\* C21: the value of an And, Or or Not node on a text, the empty text
\* included, is the conjunction, disjunction or negation of the values of
\* its operands on that text.
C21_BooleanCombinators ==
    m_pc = "done" =>
        /\ m_ast.op = "And" =>
              ((m_result = "true") <=>
                  (evaluate(m_ast.left, m_text) /\ evaluate(m_ast.right, m_text)))
        /\ m_ast.op = "Or" =>
              ((m_result = "true") <=>
                  (evaluate(m_ast.left, m_text) \/ evaluate(m_ast.right, m_text)))
        /\ m_ast.op = "Not" =>
              ((m_result = "true") <=> ~evaluate(m_ast.operand, m_text))

\* the expression is syntactically valid: the lexer and the parser accept it
Valid(e) ==
    /\ tokenize(e, 0, <<>>).ok
    /\ parse(tokenize(e, 0, <<>>).value).ok

\* C22: the empty expression matches every text, the empty one included,
\* and is not lexed; a valid expression that is not empty does not match
\* the empty text.
C22_EmptyInputs ==
    m_pc = "done" =>
        /\ m_expression = <<>> => (m_result = "true" /\ m_tokens = <<>>)
        /\ (m_expression # <<>> /\ m_text = <<>> /\ Valid(m_expression))
              => m_result = "false"

\* match has returned on a valid negation and the empty text
C22_Witness ==
    /\ m_pc = "done"
    /\ m_text = <<>>
    /\ m_expression # <<>>
    /\ m_ast.op = "Not"
    /\ m_result = "false"

\* -------------------------------------------- properties of SpecParse

\* the precedence of a binary operator and the node it makes
Precedence(o) == CASE o.type = "OR" -> 1 [] o.type = "AND" -> 2 [] o.type = "BEFORE" -> 3
BinaryNode(o, left, right) ==
    CASE o.type = "OR" -> OrNode(left, right)
      [] o.type = "AND" -> AndNode(left, right)
      [] o.type = "BEFORE" -> BeforeNode(left, right)

\* C23: binary operators are left-associative and bind in the order
\* OR < AND < BEFORE < NOT: in "x o1 y o2 z" the second operator takes y
\* exactly if it binds tighter than the first, a NOT takes the one word after
\* it, and parentheses make their content one operand; each of these token
\* lists is accepted.
C23_PrecedenceAndAssociativity ==
    p_pc = "done" =>
        \A x, y, z \in Words : \A o1, o2 \in BinaryOperators :
            LET eof == Token("EOF", <<>>)
                lp == Token("LPAREN", <<"(">>)
                rp == Token("RPAREN", <<")">>)
                X == WordNode(x.value)
                Y == WordNode(y.value)
                Z == WordNode(z.value)
            IN  /\ p_tokens = <<x, o1, y, o2, z, eof>> =>
                      p_error = "none" /\ p_ast = IF Precedence(o2) > Precedence(o1)
                              THEN BinaryNode(o1, X, BinaryNode(o2, Y, Z))
                              ELSE BinaryNode(o2, BinaryNode(o1, X, Y), Z)
                /\ p_tokens = <<Token("NOT", <<"~">>), x, o1, y, eof>> =>
                      p_error = "none" /\ p_ast = BinaryNode(o1, NotNode(X), Y)
                /\ p_tokens = <<x, o1, Token("NOT", <<"~">>), y, eof>> =>
                      p_error = "none" /\ p_ast = BinaryNode(o1, X, NotNode(Y))
                /\ p_tokens = <<lp, x, o1, y, rp, o2, z, eof>> =>
                      p_error = "none" /\ p_ast = BinaryNode(o2, BinaryNode(o1, X, Y), Z)
                /\ p_tokens = <<x, o1, lp, y, o2, z, rp, eof>> =>
                      p_error = "none" /\ p_ast = BinaryNode(o1, X, BinaryNode(o2, Y, Z))

\* the tokens of "a & b < c" have been parsed
C23_Witness ==
    /\ p_pc = "done"
    /\ p_tokens = <<Token("WORD", <<"a">>), Token("AND", <<"&">>), Token("WORD", <<"b">>),
                    Token("BEFORE", <<"<">>), Token("WORD", <<"c">>), Token("EOF", <<>>)>>
    /\ p_ast = AndNode(WordNode(<<"a">>), BeforeNode(WordNode(<<"b">>), WordNode(<<"c">>)))

\* -------------------------------------------- properties of SpecCase

\* str.upper on the characters of the alphabets: the letter ß has no upper
\* case of its own and becomes SS
UpperChar(c) ==
    CASE c = "a" -> <<"A">>
      [] c = "b" -> <<"B">>
      [] c = "s" -> <<"S">>
      [] c = "ß" -> <<"S", "S">>
      [] OTHER -> <<c>>

RECURSIVE Upper(_)
Upper(s) == IF s = <<>> THEN <<>> ELSE UpperChar(Head(s)) \o Upper(Tail(s))

\* C24: with ignore_case the value match returns is the one it returns on
\* the text, and on the expression, changed to upper or to lower case;
\* without ignore_case a literal matches exactly the texts in which it
\* occurs letter for letter.
C24_CaseInsensitiveByDefault ==
    m_pc = "done" =>
        /\ m_args.ignore_case =>
              /\ \A t \in {Upper(m_args.text), Lower(m_args.text)} :
                    match(t, m_args.expression, TRUE) = m_result
              /\ \A e \in {Upper(m_args.expression), Lower(m_args.expression)} :
                    match(m_args.text, e, TRUE) = m_result
        /\ (~m_args.ignore_case /\ IsLiteral(m_ast)) =>
              (m_result = "true" <=>
                  /\ m_args.text # <<>>
                  /\ \E i \in 0..Len(m_args.text) : OccursAt(m_ast.value, m_args.text, i))

\* C25: Evaluator.evaluate finds a literal node in a text whatever the
\* letter case of the two: its value on a literal and a text that is not
\* empty is true exactly if the literal occurs in the text once both are in
\* lower case.
C25_EvaluatorIgnoresCase ==
    (m_pc = "done" /\ IsLiteral(m_ast) /\ m_text # <<>>) =>
        (m_result = "true" <=>
            \E i \in 0..Len(m_text) : OccursAt(Lower(m_ast.value), Lower(m_text), i))

\* -------------------------------- further properties of Spec and SpecFill

\* C26: whenever an execution has a browser session open on a profile the
\* profile's lock artifact exists, and no step removes the lock artifact of
\* a profile on which another execution still has its session open.
C26_LockTracksOccupancy ==
    /\ [](\A j \in Jobs : session[j] => profile[j] \in lock)
    /\ [][\A p \in Profiles :
              (p \in lock /\ p \notin lock') =>
                  ~\E j \in Jobs : session'[j] /\ profile'[j] = p]_vars

\* the jobs the scheduler has popped and launched
LaunchedJobs == {launched[n] : n \in 1..Len(launched)}

\* C27: once the execution of a launched job has returned, the job's
\* persisted status is completed, failed or error, also when the execution
\* found its profile locked or its url missing.
C27_ReturnedJobLeftPending ==
    \A j \in LaunchedJobs :
        (Ended(j) /\ ret[j] \in {"true", "false"}) =>
            status[j] \in {Status.COMPLETED, Status.FAILED, Status.ERROR}

\* C28: the page index is 0 when the engine is constructed; a step either
\* leaves it unchanged or adds 1 to it, and it adds 1 exactly in the steps in
\* which a click on the next control succeeds: not when the page has a
\* submit control or no next control, not when the click raises, and not in
\* the steps that fill a page or submit.
C28_PageIndexCountsAdvances ==
    /\ [](f_pc = "new" => f_page = 0)
    /\ [][/\ f_page' \in {f_page, f_page + 1}
          /\ f_page' = f_page + 1 <=> f_nextClicks' = f_nextClicks + 1
          /\ f_page' = f_page + 1 =>
                (f_pc = "navigate" /\ ~CurrentPage.submit /\ CurrentPage.next
                    /\ f_clickRaised' = f_clickRaised)]_vars

\* the engine has advanced to the second page
C28_Witness ==
    /\ f_page = 1
    /\ f_nextClicks = 1
    /\ f_pc = "submit"

\* C29: on a page with a submit control the engine clicks no next control
\* and fills no further page; the next control is located with the
\* first-section locator exactly on page index 0.
C29_SubmitPageIsFinal ==
    /\ [][((f_pc = "navigate" /\ CurrentPage.submit) =>
              (/\ f_nextClicks' = f_nextClicks
               /\ f_clickRaised' = f_clickRaised
               /\ f_located' = f_located
               /\ f_pc' = "submit"))]_vars
    /\ [][(f_pc \in {"submit", "finished", "returned"} =>
              (/\ f_pc' \in {"finished", "returned"}
               /\ f_counts' = f_counts
               /\ f_page' = f_page))]_vars
    /\ [](\A n \in 1..Len(f_located) :
              f_located[n].element = "NEXT_BUTTON_ON_FIRST_SECTION"
                  <=> f_located[n].page = 0)

\* the engine has advanced from the first page and stopped on a second page
\* with a submit control
C29_Witness ==
    /\ f_pc = "finished"
    /\ f_page = 1
    /\ CurrentPage.submit
    /\ Len(f_located) = 1

\* ----------------------------------------------------- properties of SpecLive

\* an execution that is still running holds the lock artifact of profile p
HeldByRunning(p) == \E j \in Jobs : profile[j] = p /\ touched[j] /\ ~Ended(j)

\* no lock artifact is left behind by an execution that is no longer running
NoLockLeftBehind == \A p \in lock : HeldByRunning(p)

\* process_queue has returned after launching every name it was given once
LaunchedAllAndReturned ==
    /\ spc = "done"
    /\ Len(launched) = Len(filler_names)
    /\ \A n \in 1..Len(filler_names) : \E k \in 1..Len(launched) : launched[k] = filler_names[n]

====
